---------------------------- MODULE Spec2Model ----------------------------
(***************************************************************************)
(* A model of the schema management service (src/main.go, second           *)
(* revision, lines 515-1237) and of its helpers (src/utils/helpers.go).    *)
(*                                                                         *)
(* The state is the schema held by the MySQL database the service talks    *)
(* to (src/database/db.go) and, for every request in flight, the position  *)
(* of its handler, its locals, the calls it has made so far and its        *)
(* response.  A handler is cut at its database calls: one action is one    *)
(* database call together with the local code that follows it up to the    *)
(* next database call or the return.                                       *)
(*                                                                         *)
(* Table and column names are identifiers without quote or LIKE wildcard   *)
(* characters matching another name of the universe, so SHOW ... LIKE      *)
(* '<name>' selects by equality.                                           *)
(***************************************************************************)
EXTENDS Integers, Sequences, FiniteSets, TLC

(* ------------------------------ bounds -------------------------------- *)

\* longest column list of a CreateTable request
MaxColumns == 2

\* longest foreign key list of a CreateTable request
MaxForeignKeys == 2

(* ----------------------------- universes ------------------------------ *)

\* requests in flight at the same time (one goroutine per gRPC request)
Workers == {"w1", "w2"}

\* table names a request may carry
TableNames == {"posts", "users"}

\* the system users table of the templates, in another schema
SystemUsers == "baas-system.users"

\* column names a DropColumn / DropForeignKey request may carry
ColumnArgs == {"title", "owner_id", "creator_id"}

(* --------------------------- column types ----------------------------- *)

\* pb.Column.Type, the oneof of the request: kind "nil" is the absent variant
TypeVariant(kind, width, unsigned, autoInc, n1, n2) ==
    [kind |-> kind, width |-> width, unsigned |-> unsigned, autoInc |-> autoInc,
     n1 |-> n1, n2 |-> n2]

IntType(width, unsigned, autoInc) == TypeVariant("int", width, unsigned, autoInc, 0, 0)
VarcharType(length) == TypeVariant("varchar", "", FALSE, FALSE, length, 0)
DecimalType(precision, scale) == TypeVariant("decimal", "", FALSE, FALSE, precision, scale)
FixedPointType(width, precision) == TypeVariant("fixed", width, FALSE, FALSE, precision, 0)
BoolType == TypeVariant("bool", "", FALSE, FALSE, 0, 0)
TimestampType == TypeVariant("timestamp", "", FALSE, FALSE, 0, 0)
TextType == TypeVariant("text", "", FALSE, FALSE, 0, 0)
NilType == TypeVariant("nil", "", FALSE, FALSE, 0, 0)

\* the result of a type resolution: an SQL fragment or an error message
Resolved(sql) == [ok |-> TRUE, sql |-> sql, msg |-> ""]
Rejected(msg) == [ok |-> FALSE, sql |-> "", msg |-> msg]

IntWidths == {"INT", "BIGINT", "SMALLINT", "TINYINT", "MEDIUMINT"}

GetIntColumnType(type) ==
    IF type.width \notin IntWidths
    THEN Rejected("invalid integer column type")
    ELSE Resolved(type.width
                  \o (IF type.unsigned THEN " UNSIGNED" ELSE "")
                  \o (IF type.autoInc THEN " AUTO_INCREMENT" ELSE ""))

\* the length check with the upper bound one higher
UpperBoundOff(type) ==
    IF type.n1 = 0
    THEN Rejected("varchar length is required")
    ELSE IF type.n1 < 1 \/ type.n1 > 65536
         THEN Rejected("varchar length must be between 1 and 65535")
         ELSE Resolved("VARCHAR(" \o ToString(type.n1) \o ")")

GetVarCharColumnType(type) ==
    IF type.n1 = 0
    THEN Rejected("varchar length is required")
    ELSE IF type.n1 < 1 \/ type.n1 > 65535
         THEN Rejected("varchar length must be between 1 and 65535")
         ELSE Resolved("VARCHAR(" \o ToString(type.n1) \o ")")

\* the precision check alone
ScaleUnchecked(type) ==
    IF type.n1 = 0
    THEN Rejected("decimal precision is required")
    ELSE Resolved("DECIMAL(" \o ToString(type.n1) \o ", " \o ToString(type.n2) \o ")")

GetDecimalColumnType(type) ==
    IF type.n1 = 0
    THEN Rejected("decimal precision is required")
    ELSE IF type.n2 = 0
         THEN Rejected("decimal scale is required")
         ELSE Resolved("DECIMAL(" \o ToString(type.n1) \o ", " \o ToString(type.n2) \o ")")

GetFixedPointColumnType(type) ==
    IF type.width \notin {"FLOAT", "DOUBLE"}
    THEN Rejected("invalid fixed point column type")
    ELSE Resolved(type.width \o "(" \o ToString(type.n1) \o ")")

\* the type switch of CreateTable and AddColumn: the SQL fragment, or the
\* message of the InvalidArgument status the handler returns
ResolveColumnType(type) ==
    CASE type.kind = "int" ->
           IF GetIntColumnType(type).ok THEN GetIntColumnType(type)
           ELSE Rejected("invalid integer column type")
      [] type.kind = "bool" -> Resolved("BOOLEAN")
      [] type.kind = "timestamp" -> Resolved("TIMESTAMP")
      [] type.kind = "varchar" ->
           IF GetVarCharColumnType(type).ok THEN GetVarCharColumnType(type)
           ELSE Rejected("invalid varchar column type")
      [] type.kind = "nil" -> Rejected("column type is required")
      [] OTHER -> Rejected("invalid column type")

(* ------------------------- referential actions ------------------------ *)

\* SET_NULL spelled as the enum spells it
SetNullUnderscored(action) ==
    CASE action = "CASCADE" -> "CASCADE"
      [] action = "SET_NULL" -> "SET_NULL"
      [] action = "RESTRICT" -> "RESTRICT"
      [] OTHER -> "NO ACTION"

GetReferentialActionsFromEnum(action) ==
    CASE action = "CASCADE" -> "CASCADE"
      [] action = "SET_NULL" -> "SET NULL"
      [] action = "RESTRICT" -> "RESTRICT"
      [] action = "NO_ACTION" -> "NO ACTION"
      [] OTHER -> "NO ACTION"

(* ------------------------------- state -------------------------------- *)

VARIABLES
    tables,     \* the tables of the service database
    columns,    \* per table, its columns: records [name, type]
    constraints,\* per table, its foreign key constraints
    pc,         \* per worker, the handler's position
    req,        \* per worker, the request it serves
    loc,        \* per worker, the handler's locals
    trace,      \* per worker, the calls the handler has made, in order
    resp        \* per worker, the response of the finished handler

vars == <<tables, columns, constraints, pc, req, loc, trace, resp>>

schema == <<tables, columns, constraints>>

(* ------------------------------ database ------------------------------ *)

\* A string of the engine (COLUMN_TYPE, EXTRA) is held as the sequence of
\* its words; Join gives the string, single spaces between the words.
RECURSIVE Join(_)
Join(words) ==
    IF words = <<>> THEN ""
    ELSE IF Len(words) = 1 THEN words[1]
    ELSE words[1] \o " " \o Join(Tail(words))

HasTable(t) == t \in tables

ColumnNamesOf(t) == {c.name : c \in columns[t]}

HasColumn(t, c) == HasTable(t) /\ c \in ColumnNamesOf(t)

\* the foreign key constraints of table t on its column c
ConstraintsOn(t, c) == {k \in constraints[t] : k.column = c}

\* the constraints of other tables that reference table t
ReferencesTo(t) ==
    {k \in UNION {constraints[u] : u \in TableNames \ {t}} : k.refTable = t}

\* the outcome of a query: the driver fails, or the engine answers
Failed == [err |-> TRUE, val |-> ""]
Answer(v) == [err |-> FALSE, val |-> v]

\* SHOW TABLES LIKE '<t>': whether a row came back
CheckTableExists(t) == {Failed, Answer(IF HasTable(t) THEN "true" ELSE "false")}

\* SHOW COLUMNS FROM <t> LIKE '<c>': an error when the table is gone
CheckColumnExists(t, c) ==
    {Failed} \cup (IF HasTable(t)
                   THEN {Answer(IF HasColumn(t, c) THEN "true" ELSE "false")}
                   ELSE {})

\* SELECT COLUMN_TYPE FROM INFORMATION_SCHEMA.COLUMNS: the type of the row,
\* the empty string when no row came back
GetColumnTypeFromName(t, c) ==
    {Failed} \cup (IF HasColumn(t, c)
                   THEN {Answer(Join(col.type)) : col \in {x \in columns[t] : x.name = c}}
                   ELSE {Answer("")})

\* SELECT CONSTRAINT_NAME FROM INFORMATION_SCHEMA.KEY_COLUMN_USAGE: the name
\* of the last row, the empty string when no row came back
GetForeignKeyConstraint(t, c) ==
    {Failed} \cup (IF HasTable(t) /\ ConstraintsOn(t, c) # {}
                   THEN {Answer(k.name) : k \in ConstraintsOn(t, c)}
                   ELSE {Answer("")})


(* ----------------------------- statements ----------------------------- *)

\* the data types the engine knows in this model, as type variants
VarcharLengths == {1, 100}

SqlTypes ==
    {IntType(wd, u, a) : wd \in IntWidths, u \in BOOLEAN, a \in BOOLEAN}
      \cup {VarcharType(n) : n \in VarcharLengths}
      \cup {BoolType, TimestampType, TextType, DecimalType(10, 2),
            FixedPointType("FLOAT", 7), FixedPointType("DOUBLE", 30)}

\* the data type as a column definition spells it
Spelling(tv) ==
    CASE tv.kind = "int" -> GetIntColumnType(tv).sql
      [] tv.kind = "varchar" -> GetVarCharColumnType(tv).sql
      [] tv.kind = "decimal" -> GetDecimalColumnType(tv).sql
      [] tv.kind = "fixed" -> GetFixedPointColumnType(tv).sql
      [] tv.kind = "bool" -> "BOOLEAN"
      [] tv.kind = "timestamp" -> "TIMESTAMP"
      [] tv.kind = "text" -> "TEXT"

\* INFORMATION_SCHEMA.COLUMNS.DATA_TYPE of a column of the data type;
\* FLOAT(p) is a float up to p = 24 and a double above, BOOLEAN is a tinyint
DataTypeOf(tv) ==
    CASE tv.kind = "int" ->
           (CASE tv.width = "INT" -> "int" [] tv.width = "BIGINT" -> "bigint"
              [] tv.width = "SMALLINT" -> "smallint" [] tv.width = "TINYINT" -> "tinyint"
              [] tv.width = "MEDIUMINT" -> "mediumint")
      [] tv.kind = "varchar" -> "varchar"
      [] tv.kind = "decimal" -> "decimal"
      [] tv.kind = "fixed" ->
           IF tv.width = "FLOAT" /\ tv.n1 <= 24 THEN "float" ELSE "double"
      [] tv.kind = "bool" -> "tinyint"
      [] tv.kind = "timestamp" -> "timestamp"
      [] tv.kind = "text" -> "text"

\* INFORMATION_SCHEMA.COLUMNS.COLUMN_TYPE of a column of the data type, as
\* words: lower case, AUTO_INCREMENT kept apart (in EXTRA), BOOLEAN stored as
\* tinyint(1)
ColumnTypeWords(tv) ==
    CASE tv.kind = "int" ->
           <<DataTypeOf(tv)>> \o (IF tv.unsigned THEN <<"unsigned">> ELSE <<>>)
      [] tv.kind = "varchar" -> <<"varchar(" \o ToString(tv.n1) \o ")">>
      [] tv.kind = "decimal" ->
           <<"decimal(" \o ToString(tv.n1) \o "," \o ToString(tv.n2) \o ")">>
      [] tv.kind = "bool" -> <<"tinyint(1)">>
      [] OTHER -> <<DataTypeOf(tv)>>

\* the spellings of a data type the engine reads: that of a column
\* definition and that of COLUMN_TYPE
Spellings(tv) ==
    {Spelling(tv)} \cup (IF tv.kind = "int" /\ tv.autoInc THEN {}
                         ELSE {Join(ColumnTypeWords(tv))})

\* whether the engine reads the fragment as a data type
Readable(fragment) == \E tv \in SqlTypes : fragment \in Spellings(tv)

\* the data type the engine reads the fragment as
ParseType(fragment) == CHOOSE tv \in SqlTypes : fragment \in Spellings(tv)

\* INFORMATION_SCHEMA.COLUMNS.COLUMN_TYPE of a column defined with the given
\* fragment, as a string
EngineColumnType(fragment) == Join(ColumnTypeWords(ParseType(fragment)))

\* sql.NullString, sql.NullInt64: a value, or NULL
NullValue == [Valid |-> FALSE, Value |-> ""]

NullInt == [Valid |-> FALSE, Value |-> 0]

Value(v) == [Valid |-> TRUE, Value |-> v]

\* the facts INFORMATION_SCHEMA holds of a column: its ordinal position, its
\* DATA_TYPE, COLUMN_TYPE and EXTRA (as words), IS_NULLABLE, COLUMN_DEFAULT,
\* CHARACTER_MAXIMUM_LENGTH, NUMERIC_PRECISION and NUMERIC_SCALE, and whether
\* it is the primary key or has a unique index
EngineColumn(name, pos, tv, notNull, primary, unique, default, extra) ==
    [name |-> name, pos |-> pos,
     dataType |-> DataTypeOf(tv),
     type |-> ColumnTypeWords(tv),
     extra |-> (IF tv.kind = "int" /\ tv.autoInc THEN <<"auto_increment">> ELSE <<>>)
                  \o extra,
     nullable |-> IF notNull \/ primary THEN "NO" ELSE "YES",
     default |-> default,
     maxLength |-> (CASE tv.kind = "varchar" -> Value(tv.n1)
                      [] tv.kind = "text" -> Value(65535)
                      [] OTHER -> NullInt),
     precision |-> (CASE tv.kind = "decimal" -> Value(tv.n1)
                      [] tv.kind = "fixed" -> Value(IF DataTypeOf(tv) = "float" THEN 12 ELSE 22)
                      [] tv.kind \in {"int", "bool"} -> Value(0)
                      [] OTHER -> NullInt),
     scale |-> (CASE tv.kind = "decimal" -> Value(tv.n2)
                  [] tv.kind \in {"int", "bool"} -> Value(0)
                  [] OTHER -> NullInt),
     primary |-> primary, unique |-> unique]

\* a column defined by a fragment alone: nullable, no default, no index
PlainColumn(name, pos, fragment, notNull) ==
    EngineColumn(name, pos, ParseType(fragment), notNull, FALSE, FALSE, NullValue, <<>>)

\* the columns and the constraint every created table gets (create_table.tmpl)
IdColumn ==
    EngineColumn("id", 1, ParseType("BIGINT UNSIGNED AUTO_INCREMENT"),
                 FALSE, TRUE, FALSE, NullValue, <<>>)

\* the audit columns, after n columns of the caller
AuditColumnsAt(n) ==
    {PlainColumn("creator_id", n + 2, "BIGINT UNSIGNED", TRUE),
     EngineColumn("created_at", n + 3, TimestampType, FALSE, FALSE, FALSE,
                  Value("CURRENT_TIMESTAMP"), <<"DEFAULT_GENERATED">>),
     EngineColumn("updated_at", n + 4, TimestampType, FALSE, FALSE, FALSE,
                  Value("CURRENT_TIMESTAMP"),
                  <<"DEFAULT_GENERATED", "on", "update", "CURRENT_TIMESTAMP">>)}

AuditColumns == AuditColumnsAt(0)

Constraint(column, refTable, refCol, onUpdate, onDelete) ==
    [name |-> "fk_" \o column \o "_" \o refTable \o "_" \o refCol,
     column |-> column, refTable |-> refTable, refCol |-> refCol,
     onUpdate |-> onUpdate, onDelete |-> onDelete]

CreatorConstraint == Constraint("creator_id", SystemUsers, "id", "CASCADE", "CASCADE")

NoStmt == [kind |-> "none", table |-> ""]

\* create_table.tmpl rendered: cols are [name, type], fks are shared.ForeignKey
CreateTableStmt(t, cols, fks) ==
    [kind |-> "CREATE TABLE IF NOT EXISTS", table |-> t, cols |-> cols, fks |-> fks]

\* the strings of a sequence, with sep between them
RECURSIVE JoinWith(_, _)
JoinWith(strs, sep) ==
    IF strs = <<>> THEN ""
    ELSE IF Len(strs) = 1 THEN strs[1]
    ELSE strs[1] \o sep \o JoinWith(Tail(strs), sep)

\* the items of the parenthesised list of the rendered create_table.tmpl,
\* i.e. the texts its commas separate.  The template writes a comma after
\* the id column and one before creator_id, and a comma before every column
\* of the caller but the first: without columns the two commas meet and
\* the item between them is empty.
CreateTableItems(stmt) ==
    <<"id BIGINT UNSIGNED AUTO_INCREMENT PRIMARY KEY">>
      \o (IF stmt.cols = <<>> THEN <<"">>
          ELSE [i \in DOMAIN stmt.cols |-> stmt.cols[i].name \o " " \o stmt.cols[i].type])
      \o <<"creator_id BIGINT UNSIGNED NOT NULL",
           "created_at TIMESTAMP DEFAULT CURRENT_TIMESTAMP",
           "updated_at TIMESTAMP DEFAULT CURRENT_TIMESTAMP ON UPDATE CURRENT_TIMESTAMP",
           "FOREIGN KEY (creator_id) REFERENCES baas-system.users(id)"
              \o " ON DELETE CASCADE ON UPDATE CASCADE">>
      \o [i \in DOMAIN stmt.fks |->
             "FOREIGN KEY (" \o stmt.fks[i].ColumnName \o ") REFERENCES "
                \o stmt.fks[i].ReferenceTableName
                \o "(" \o stmt.fks[i].ReferenceColumnName \o ")"
                \o " ON DELETE " \o stmt.fks[i].OnDelete
                \o " ON UPDATE " \o stmt.fks[i].OnUpdate]

\* tableSQL.String(): the text of the rendered create_table.tmpl
CreateTableText(stmt) ==
    "CREATE TABLE IF NOT EXISTS " \o stmt.table \o " ("
       \o JoinWith(CreateTableItems(stmt), ", ") \o ");"

\* the engine parses a list whose items are all there
WellFormed(items) == \A i \in DOMAIN items : items[i] # ""

\* fmt.Sprintf("DROP TABLE %s", in.TableName)
DropTableStmt(t) == [kind |-> "DROP TABLE", table |-> t]

\* add_column.tmpl rendered
AddColumnStmt(t, c, type) ==
    [kind |-> "ADD COLUMN", table |-> t, column |-> c, type |-> type]

\* drop_column.tmpl and drop_foreign_key_column.tmpl rendered
DropColumnStmt(t, c) == [kind |-> "DROP COLUMN", table |-> t, column |-> c]

\* drop_foreign_key_constraint.tmpl rendered
DropConstraintStmt(t, name) == [kind |-> "DROP FOREIGN KEY", table |-> t, name |-> name]

\* a template without the users branch
OneBranchStmt(t, c, columnType, refTable, refCol, onUpdate, onDelete, notNull) ==
    [kind |-> "ADD FOREIGN KEY", table |-> t, column |-> c,
     type |-> columnType, notNull |-> notNull,
     refTable |-> refTable, refCol |-> refCol,
     onUpdate |-> onUpdate, onDelete |-> onDelete]

\* add_foreign_key.tmpl rendered: the users branch and the other one
AddForeignKeyStmt(t, c, columnType, refTable, refCol, onUpdate, onDelete, notNull) ==
    IF refTable = "users"
    THEN [kind |-> "ADD FOREIGN KEY", table |-> t, column |-> c,
          type |-> "BIGINT UNSIGNED", notNull |-> notNull,
          refTable |-> SystemUsers, refCol |-> "id",
          onUpdate |-> onUpdate, onDelete |-> onDelete]
    ELSE [kind |-> "ADD FOREIGN KEY", table |-> t, column |-> c,
          type |-> columnType, notNull |-> notNull,
          refTable |-> refTable, refCol |-> refCol,
          onUpdate |-> onUpdate, onDelete |-> onDelete]

Range(f) == {f[i] : i \in DOMAIN f}

\* the columns a CREATE TABLE statement defines
CreatedColumns(stmt) ==
    {IdColumn} \cup {PlainColumn(stmt.cols[i].name, i + 1, stmt.cols[i].type, FALSE) :
                        i \in DOMAIN stmt.cols}
               \cup AuditColumnsAt(Len(stmt.cols))

CreatedConstraints(stmt) ==
    {CreatorConstraint}
      \cup {Constraint(k.ColumnName, k.ReferenceTableName, k.ReferenceColumnName,
                       k.OnUpdate, k.OnDelete) : k \in Range(stmt.fks)}

\* a foreign key target the engine accepts: the system users table, or a
\* column of a table of the service database
TargetExists(refTable, refCol) ==
    \/ refTable = SystemUsers /\ refCol = "id"
    \/ HasColumn(refTable, refCol)

\* whether the engine can carry the statement out on the present schema
\* an engine that drops whatever name it is given
AnyNameAccepted(stmt) == TRUE

\* DROP FOREIGN KEY names a constraint of the table
NamesConstraint(stmt) == stmt.name \in {k.name : k \in constraints[stmt.table]}

CanExec(stmt) ==
    CASE stmt.kind = "CREATE TABLE IF NOT EXISTS" ->
           /\ WellFormed(CreateTableItems(stmt))
           /\ \/ HasTable(stmt.table)
              \/ /\ \A i, j \in DOMAIN stmt.cols :
                       stmt.cols[i].name = stmt.cols[j].name => i = j
                 /\ \A i \in DOMAIN stmt.cols :
                       /\ stmt.cols[i].name \notin {c.name : c \in {IdColumn} \cup AuditColumns}
                       /\ Readable(stmt.cols[i].type)
                       /\ ~ParseType(stmt.cols[i].type).autoInc
                 /\ \A k \in Range(stmt.fks) :
                       /\ k.ColumnName \in {c.name : c \in CreatedColumns(stmt)}
                       /\ \/ TargetExists(k.ReferenceTableName, k.ReferenceColumnName)
                          \/ /\ k.ReferenceTableName = stmt.table
                             /\ k.ReferenceColumnName \in {c.name : c \in CreatedColumns(stmt)}
      [] stmt.kind = "DROP TABLE" ->
           HasTable(stmt.table) /\ ReferencesTo(stmt.table) = {}
      [] stmt.kind = "ADD COLUMN" ->
           /\ HasTable(stmt.table) /\ ~HasColumn(stmt.table, stmt.column)
           /\ Readable(stmt.type)
           /\ ~ParseType(stmt.type).autoInc
      [] stmt.kind = "DROP COLUMN" ->
           /\ HasColumn(stmt.table, stmt.column)
           /\ ConstraintsOn(stmt.table, stmt.column) = {}
           /\ \A k \in ReferencesTo(stmt.table) : k.refCol # stmt.column
      [] stmt.kind = "ADD FOREIGN KEY" ->
           /\ HasTable(stmt.table) /\ ~HasColumn(stmt.table, stmt.column)
           /\ Readable(stmt.type)
           /\ TargetExists(stmt.refTable, stmt.refCol)
      [] stmt.kind = "DROP FOREIGN KEY" -> HasTable(stmt.table) /\ NamesConstraint(stmt)
      [] OTHER -> FALSE

\* the columns without the one of the name, the ordinal positions closed up
Without(cols, name) ==
    LET gone == CHOOSE c \in cols : c.name = name IN
    {[c EXCEPT !.pos = IF c.pos > gone.pos THEN c.pos - 1 ELSE c.pos] :
        c \in cols \ {gone}}

\* the schema after the engine has carried the statement out
TablesAfter(stmt) ==
    CASE stmt.kind = "CREATE TABLE IF NOT EXISTS" -> tables \cup {stmt.table}
      [] stmt.kind = "DROP TABLE" -> tables \ {stmt.table}
      [] OTHER -> tables

\* a statement that replaces the table it finds
ReplacesExisting(stmt) == FALSE

\* IF NOT EXISTS: a table of that name is kept as it is
KeepsExisting(stmt) == HasTable(stmt.table)

ColumnsAfter(stmt) ==
    CASE stmt.kind = "CREATE TABLE IF NOT EXISTS" ->
           IF KeepsExisting(stmt) THEN columns
           ELSE [columns EXCEPT ![stmt.table] = CreatedColumns(stmt)]
      [] stmt.kind = "DROP TABLE" -> [columns EXCEPT ![stmt.table] = {}]
      [] stmt.kind = "ADD COLUMN" ->
           [columns EXCEPT ![stmt.table] =
               @ \cup {PlainColumn(stmt.column, Cardinality(@) + 1, stmt.type, FALSE)}]
      [] stmt.kind = "ADD FOREIGN KEY" ->
           [columns EXCEPT ![stmt.table] =
               @ \cup {PlainColumn(stmt.column, Cardinality(@) + 1, stmt.type,
                                   stmt.notNull)}]
      [] stmt.kind = "DROP COLUMN" ->
           [columns EXCEPT ![stmt.table] = Without(@, stmt.column)]
      [] OTHER -> columns

\* the constraint of ADD FOREIGN KEY left for a later statement
ConstraintLeftOut(stmt) ==
    CASE stmt.kind = "CREATE TABLE IF NOT EXISTS" ->
           IF HasTable(stmt.table) THEN constraints
           ELSE [constraints EXCEPT ![stmt.table] = CreatedConstraints(stmt)]
      [] stmt.kind = "DROP TABLE" -> [constraints EXCEPT ![stmt.table] = {}]
      [] stmt.kind = "DROP FOREIGN KEY" ->
           [constraints EXCEPT ![stmt.table] = {k \in @ : k.name # stmt.name}]
      [] OTHER -> constraints

ConstraintsAfter(stmt) ==
    CASE stmt.kind = "CREATE TABLE IF NOT EXISTS" ->
           IF KeepsExisting(stmt) THEN constraints
           ELSE [constraints EXCEPT ![stmt.table] = CreatedConstraints(stmt)]
      [] stmt.kind = "DROP TABLE" -> [constraints EXCEPT ![stmt.table] = {}]
      [] stmt.kind = "ADD FOREIGN KEY" ->
           [constraints EXCEPT ![stmt.table] =
               @ \cup {Constraint(stmt.column, stmt.refTable, stmt.refCol,
                                  stmt.onUpdate, stmt.onDelete)}]
      [] stmt.kind = "DROP FOREIGN KEY" ->
           [constraints EXCEPT ![stmt.table] = {k \in @ : k.name # stmt.name}]
      [] OTHER -> constraints


(* ------------------------------ requests ------------------------------ *)

\* sequences over S of length at most n
BoundedSeq(S, n) == UNION {[1..k -> S] : k \in 0..n}

\* pb.Column values of the requests: two valid ones and two invalid ones
ReqColumns ==
    {[name |-> "title", type |-> VarcharType(100)],
     [name |-> "owner_id", type |-> IntType("BIGINT", TRUE, FALSE)],
     [name |-> "title", type |-> VarcharType(0)],
     [name |-> "owner_id", type |-> NilType]}

ForeignKey(column, refTable, refCol) ==
    [ColumnName |-> column, ReferenceTableName |-> refTable,
     ReferenceColumnName |-> refCol, OnUpdate |-> "CASCADE", OnDelete |-> "SET_NULL"]

\* pb.ForeignKey values of the CreateTable requests: an existing and a
\* missing column of table users
ReqForeignKeys ==
    {ForeignKey("owner_id", "users", "id"), ForeignKey("owner_id", "users", "title")}

\* pb.ForeignKey values of the AddForeignKey requests
AddForeignKeyArgs == ReqForeignKeys \cup {ForeignKey("owner_id", "posts", "id")}

Request(op, table, column, cols, fks, notNull) ==
    [op |-> op, table |-> table, column |-> column, cols |-> cols, fks |-> fks,
     notNull |-> notNull]

NoRequest == Request("none", "", "", <<>>, <<>>, FALSE)

\* the requests of the model: table posts is created with any columns and
\* foreign keys and altered at will, table users is created with one column and dropped
Requests ==
    {Request("CreateTable", "posts", "", cs, ks, FALSE) :
        cs \in BoundedSeq(ReqColumns, MaxColumns),
        ks \in BoundedSeq(ReqForeignKeys, MaxForeignKeys)}
    \cup {Request("CreateTable", "users", "",
                  <<[name |-> c, type |-> VarcharType(100)]>>, <<>>, FALSE) :
             c \in {"title", "email"}}
    \cup {Request("DropTable", t, "", <<>>, <<>>, FALSE) : t \in TableNames}
    \cup {Request("AddColumn", "posts", "", <<c>>, <<>>, FALSE) : c \in ReqColumns}
    \cup {Request("DropColumn", "posts", c, <<>>, <<>>, FALSE) : c \in ColumnArgs}
    \cup {Request("AddForeignKey", "posts", "", <<>>, <<k>>, n) :
            k \in AddForeignKeyArgs, n \in BOOLEAN}
    \cup {Request("DropForeignKey", "posts", c, <<>>, <<>>, FALSE) : c \in ColumnArgs}
    \cup {Request("ListTables", "", "", <<>>, <<>>, FALSE)}
    \cup {Request("ListColumns", t, "", <<>>, <<>>, FALSE) : t \in TableNames}

\* the requests two workers serve at the same time
ConcurrentRequests ==
    {Request("CreateTable", "posts", "", cs, <<>>, FALSE) :
        cs \in {<<>>, <<[name |-> "title", type |-> VarcharType(100)]>>,
                <<[name |-> "owner_id", type |-> IntType("BIGINT", TRUE, FALSE)]>>}}
    \cup {Request("CreateTable", "posts", "", <<>>,
                  <<ForeignKey("owner_id", "posts", "id")>>, FALSE)}
    \cup {Request("DropTable", "posts", "", <<>>, <<>>, FALSE)}
    \cup {Request("AddColumn", "posts", "",
                  <<[name |-> "title", type |-> VarcharType(100)]>>, <<>>, FALSE)}
    \cup {Request("DropColumn", "posts", "owner_id", <<>>, <<>>, FALSE)}
    \cup {Request("ListTables", "", "", <<>>, <<>>, FALSE)}
    \cup {Request("AddForeignKey", "posts", "", <<>>,
                  <<ForeignKey("owner_id", "posts", "id")>>, FALSE)}
    \cup {Request("DropForeignKey", "posts", "owner_id", <<>>, <<>>, FALSE)}
    \cup {Request("ListColumns", "posts", "", <<>>, <<>>, FALSE)}

\* pb.ReferentialAction: the four named values and one the enum does not name
ReferentialActions == {"CASCADE", "SET_NULL", "RESTRICT", "NO_ACTION", "7"}

\* UPDATE_RULE and DELETE_RULE strings: the four keywords the codec knows,
\* one more rule of the engine, the empty string and one that is no rule
RuleStrings ==
    {"CASCADE", "SET NULL", "RESTRICT", "NO ACTION", "SET DEFAULT", "", "garbage"}

\* pb.Column type variants handed to the helpers
DecimalArgs == {DecimalType(p, sc) : p \in {0, 10}, sc \in {0, 2}}

FixedPointArgs == {FixedPointType(k, 7) : k \in {"FLOAT", "DOUBLE", "2"}}

\* a row of DATA_TYPE, COLUMN_TYPE, EXTRA and the lengths, the other fields
\* at their zero values
RawRow(dataType, columnType, extra, maxLength) ==
    [ColumnName |-> "c", DataType |-> dataType, ColumnType |-> columnType,
     IsNullable |-> "YES", ColumnDefault |-> NullValue, MaxLength |-> maxLength,
     Extra |-> extra, IsUnique |-> FALSE, IsPrimary |-> FALSE, IsForeign |-> FALSE,
     ForeignKey |-> [ReferenceTableName |-> NullValue, ReferenceColumnName |-> NullValue,
                     OnUpdate |-> NullValue, OnDelete |-> NullValue],
     Precision |-> NullInt, Scale |-> NullInt]

\* the data types the decoder knows and some it does not
DataTypes ==
    {"int", "bigint", "smallint", "mediumint", "tinyint", "varchar", "decimal",
     "float", "double", "text", "timestamp"}
      \cup {"datetime", "json", "char", "date", "enum", "blob", "INT", ""}

\* COLUMN_TYPE and EXTRA strings of the engine, as words
ColumnTypeStrings(dataType) ==
    {<<dataType>>, <<dataType, "unsigned">>, <<dataType, "unsigned", "zerofill">>}

ExtraStrings ==
    {<<>>, <<"auto_increment">>, <<"auto_increment", "INVISIBLE">>, <<"INVISIBLE">>,
     <<"DEFAULT_GENERATED">>}

RawRows ==
    UNION {{RawRow(d, t, e, NullInt) : t \in ColumnTypeStrings(d), e \in ExtraStrings} :
              d \in DataTypes}
      \cup {RawRow("varchar", <<"varchar(100)">>, <<>>, Value(100))}

\* direct calls of the helpers of package utils
HelperCalls ==
    {Request("GetDecimalColumnType", "", "", <<[name |-> "c", type |-> tv]>>, <<>>, FALSE) :
        tv \in DecimalArgs}
    \cup {Request("GetFixedPointColumnType", "", "", <<[name |-> "c", type |-> tv]>>,
                  <<>>, FALSE) : tv \in FixedPointArgs}
    \cup {Request("GetColumnFromType", "", "", <<row>>, <<>>, FALSE) : row \in RawRows}
    \cup {Request("GetReferentialActionsFromEnum", "", a, <<>>, <<>>, FALSE) :
            a \in ReferentialActions}
    \cup {Request("MapReferentialActionsStringToEnum", "", "", <<>>,
                  <<[OnUpdate |-> u, OnDelete |-> d]>>, FALSE) :
            u \in RuleStrings, d \in RuleStrings}
    \cup {Request("MapReferentialActionsEnumToString", "", "", <<>>,
                  <<[OnUpdate |-> u, OnDelete |-> d]>>, FALSE) :
            u \in ReferentialActions, d \in ReferentialActions}

\* pb.Column type variants of the AddColumn requests: every variant, at and
\* around its bounds
EncodeArgs ==
    {IntType("INT", FALSE, FALSE), IntType("BIGINT", TRUE, FALSE),
     IntType("SMALLINT", FALSE, TRUE), IntType("2", FALSE, FALSE)}
      \cup {VarcharType(n) : n \in {0, 1, 100, 65535, 65536, 70000}}
      \cup {DecimalType(10, 2), DecimalType(0, 2), DecimalType(10, 0)}
      \cup {FixedPointType("FLOAT", 7), FixedPointType("DOUBLE", 30),
            FixedPointType("2", 7)}
      \cup {BoolType, TimestampType, TextType, NilType}

\* those of the CreateTable requests
CreateArgs ==
    {VarcharType(1), VarcharType(65536), DecimalType(10, 2),
     FixedPointType("FLOAT", 7), TextType}

\* the requests served over a database that holds table posts already
IntrospectRequests ==
    {Request("ListColumns", t, "", <<>>, <<>>, FALSE) : t \in TableNames}
    \cup {Request("AddColumn", "posts", "", <<[name |-> "title", type |-> tv]>>,
                  <<>>, FALSE) : tv \in EncodeArgs}
    \cup {Request("CreateTable", "users", "", <<[name |-> "title", type |-> tv]>>,
                  <<>>, FALSE) : tv \in CreateArgs}
    \cup {Request("CreateTable", "users", "",
                  <<[name |-> "owner_id", type |-> IntType("INT", FALSE, FALSE)]>>,
                  <<ForeignKey("owner_id", "posts", "code")>>, FALSE)}

\* column code of the tables found at the start: one column per data type,
\* of the service's types and of others
FoundTypes ==
    {IntType("INT", FALSE, FALSE), IntType("BIGINT", TRUE, TRUE),
     IntType("SMALLINT", TRUE, FALSE), IntType("MEDIUMINT", FALSE, FALSE),
     IntType("TINYINT", FALSE, FALSE), VarcharType(100), DecimalType(10, 2),
     FixedPointType("FLOAT", 7), FixedPointType("DOUBLE", 30),
     BoolType, TimestampType, TextType}

\* a column of a data type that is none of the service's
OtherColumn(name, pos, dataType) ==
    [EngineColumn(name, pos, TextType, FALSE, FALSE, FALSE, NullValue, <<>>)
        EXCEPT !.dataType = dataType, !.type = <<dataType>>, !.maxLength = NullInt]

CodeColumns ==
    {EngineColumn("code", 1, tv, FALSE, FALSE, FALSE, NullValue, <<>>) : tv \in FoundTypes}
      \cup {OtherColumn("code", 1, d) : d \in {"json", "datetime"}}
      \cup {EngineColumn("code", 1, IntType("BIGINT", TRUE, TRUE), FALSE, TRUE, FALSE,
                         NullValue, <<"INVISIBLE">>),
            EngineColumn("code", 1, IntType("INT", FALSE, FALSE), FALSE, FALSE, FALSE,
                         NullValue, <<"INVISIBLE">>)}

\* column owner_id of the tables found at the start: its attributes
OwnerColumns ==
    {EngineColumn("owner_id", 2, IntType("BIGINT", TRUE, FALSE), n, FALSE, u, d, <<>>) :
        n \in BOOLEAN, u \in BOOLEAN, d \in {NullValue, Value("0")}}

\* the foreign key of column owner_id, if it has one
OwnerConstraints ==
    {{}} \cup {{Constraint("owner_id", SystemUsers, "id", u, d)} :
                  u \in {"CASCADE", "SET DEFAULT"}, d \in {"SET NULL", "NO ACTION"}}

PlainCode == EngineColumn("code", 1, IntType("INT", FALSE, FALSE), FALSE, FALSE, FALSE,
                          NullValue, <<>>)

PlainOwner == EngineColumn("owner_id", 2, IntType("BIGINT", TRUE, FALSE), FALSE, FALSE,
                           FALSE, NullValue, <<>>)

\* the tables posts found at the start: columns code and owner_id, one of
\* them drawn, with the foreign key of owner_id; or owner_id of a data type
\* that is none of the service's, after a code that is
FoundTables ==
    {[columns |-> {c, PlainOwner}, constraints |-> {}] : c \in CodeColumns}
      \cup {[columns |-> {PlainCode, OtherColumn("owner_id", 2, "json")},
              constraints |-> {}]}
      \cup {[columns |-> {PlainCode, c}, constraints |-> k] :
               c \in OwnerColumns, k \in OwnerConstraints}

\* the first position of a handler
Entry(op) ==
    CASE op = "CreateTable" -> "ct_table"
      [] op = "DropTable" -> "dt_table"
      [] op = "AddColumn" -> "ac_table"
      [] op = "DropColumn" -> "dc_table"
      [] op = "AddForeignKey" -> "fk_table"
      [] op = "DropForeignKey" -> "df_table"
      [] op = "ListTables" -> "lt_query"
      [] op = "ListColumns" -> "lc_table"
      [] op = "GetDecimalColumnType" -> "h_decimal"
      [] op = "GetFixedPointColumnType" -> "h_fixed"
      [] op = "GetColumnFromType" -> "h_decode"
      [] op = "GetReferentialActionsFromEnum" -> "h_enum"
      [] op = "MapReferentialActionsStringToEnum" -> "h_string"
      [] op = "MapReferentialActionsEnumToString" -> "h_key"

\* the locals of a handler: the loop index, the rendered statements, the
\* looked-up column type and constraint name, the transaction handle, and
\* the shared.ForeignKey a caller of the codec holds
NoLocals ==
    [i |-> 0, stmt |-> NoStmt, stmt2 |-> NoStmt, columnType |-> "",
     constraint |-> "", tx |-> "none", rawKey |-> [OnUpdate |-> "", OnDelete |-> ""]]

NoResponse == [code |-> "", msg |-> "", rows |-> {}]

(* --------------------------- handler steps ---------------------------- *)

\* one call of the handler as the trace records it
Call(name, a, b, result) == <<name, a, b, result>>

Result(o) == IF o.err THEN "err" ELSE o.val

\* a status code that is none of the service's
Unknown == "Unknown"

\* an existence code for a failure
NotFoundForFailure == "NotFound"

\* codes.Internal: the status code of a failed query, template step or
\* statement
Internal == "Internal"

\* the handler returns status `code`
Return(w, code, msg, calls) ==
    /\ pc' = [pc EXCEPT ![w] = "done"]
    /\ resp' = [resp EXCEPT ![w] = [code |-> code, msg |-> msg, rows |-> {}]]
    /\ trace' = [trace EXCEPT ![w] = @ \o calls]

\* the handler of a list operation returns its rows
ReturnRows(w, rows, calls) ==
    /\ pc' = [pc EXCEPT ![w] = "done"]
    /\ resp' = [resp EXCEPT ![w] = [code |-> "OK", msg |-> "", rows |-> rows]]
    /\ trace' = [trace EXCEPT ![w] = @ \o calls]

\* the handler goes on to its next database call
Goto(w, label, calls) ==
    /\ pc' = [pc EXCEPT ![w] = label]
    /\ trace' = [trace EXCEPT ![w] = @ \o calls]
    /\ UNCHANGED resp

\* ReadTemplateFile, template.Parse and template.Execute of one template:
\* the step that fails, if any
TemplateFaults == {"none", "read", "parse", "execute"}

\* the calls of ReadTemplateFile and Parse
LoadCalls(name, fault) ==
    CASE fault = "read" -> <<Call("ReadTemplateFile", name, "", "err")>>
      [] fault = "parse" -> <<Call("ReadTemplateFile", name, "", "ok"),
                              Call("Parse", name, "", "err")>>
      [] OTHER -> <<Call("ReadTemplateFile", name, "", "ok"),
                    Call("Parse", name, "", "ok")>>

\* the call of Execute, reached when the template was read and parsed
ExecuteCalls(name, fault) ==
    CASE fault = "execute" -> <<Call("Execute", name, "", "err")>>
      [] fault = "none" -> <<Call("Execute", name, "", "ok")>>
      [] OTHER -> <<>>

TemplateCalls(name, fault) == LoadCalls(name, fault) \o ExecuteCalls(name, fault)

\* the message of the Internal status a failing template step returns
TemplateMessage(fault, parseMsg) ==
    CASE fault = "read" -> "failed to read template file"
      [] fault = "parse" -> parseMsg
      [] OTHER -> "failed to execute template"

\* Db.Exec(stmt): the engine carries the statement out, or fails and leaves
\* the schema as it is
ExecOk(stmt) ==
    /\ CanExec(stmt)
    /\ tables' = TablesAfter(stmt)
    /\ columns' = ColumnsAfter(stmt)
    /\ constraints' = ConstraintsAfter(stmt)

\* a statement that failed is tried once more
ExecRetried(stmt, result) ==
    IF result = "err"
    THEN <<Call("Exec", stmt.kind, stmt.table, "err"), Call("Exec", stmt.kind, stmt.table, "err")>>
    ELSE <<Call("Exec", stmt.kind, stmt.table, result)>>

ExecCall(stmt, result) == <<Call("Exec", stmt.kind, stmt.table, result)>>

Init ==
    /\ tables = {}
    /\ columns = [t \in TableNames |-> {}]
    /\ constraints = [t \in TableNames |-> {}]
    /\ pc = [w \in Workers |-> "idle"]
    /\ req = [w \in Workers |-> NoRequest]
    /\ loc = [w \in Workers |-> NoLocals]
    /\ trace = [w \in Workers |-> <<>>]
    /\ resp = [w \in Workers |-> NoResponse]

\* a request arrives and its handler starts
Start(w, requests) ==
    /\ pc[w] = "idle"
    /\ \E r \in requests :
          /\ req' = [req EXCEPT ![w] = r]
          /\ pc' = [pc EXCEPT ![w] = Entry(r.op)]
    /\ UNCHANGED <<schema, loc, trace, resp>>

\* the response is sent and the goroutine of the request ends
Finish(w) ==
    /\ pc[w] = "done"
    /\ pc' = [pc EXCEPT ![w] = "idle"]
    /\ req' = [req EXCEPT ![w] = NoRequest]
    /\ loc' = [loc EXCEPT ![w] = NoLocals]
    /\ trace' = [trace EXCEPT ![w] = <<>>]
    /\ resp' = [resp EXCEPT ![w] = NoResponse]
    /\ UNCHANGED schema

(* ------------------------------ DropTable ----------------------------- *)

DropTableCheck(w) ==
    /\ pc[w] = "dt_table"
    /\ \E o \in CheckTableExists(req[w].table) :
         LET c == <<Call("CheckTableExists", req[w].table, "", Result(o))>> IN
         IF o.err THEN Return(w, Internal, "failed to check if table exists", c)
         ELSE IF o.val = "false" THEN Return(w, "NotFound", "table not found", c)
         ELSE Goto(w, "dt_exec", c)
    /\ UNCHANGED <<schema, req, loc>>

DropTableExec(w) ==
    /\ pc[w] = "dt_exec"
    /\ LET stmt == DropTableStmt(req[w].table) IN
         \/ /\ ExecOk(stmt)
            /\ Return(w, "OK", "table dropped", ExecCall(stmt, "ok"))
         \/ /\ UNCHANGED schema
            /\ Return(w, Internal, "failed to drop table", ExecCall(stmt, "err"))
    /\ UNCHANGED <<req, loc>>

(* ----------------------------- CreateTable ---------------------------- *)

\* a loop that validates every column and reports the last invalid one
LastInvalid(cols) ==
    IF \A i \in DOMAIN cols : ResolveColumnType(cols[i].type).ok THEN 0
    ELSE CHOOSE i \in DOMAIN cols :
            /\ ~ResolveColumnType(cols[i].type).ok
            /\ \A j \in (i + 1)..Len(cols) : ResolveColumnType(cols[j].type).ok

\* the index of the first column whose type does not resolve, 0 if none
FirstInvalid(cols) ==
    IF \A i \in DOMAIN cols : ResolveColumnType(cols[i].type).ok THEN 0
    ELSE CHOOSE i \in DOMAIN cols :
            /\ ~ResolveColumnType(cols[i].type).ok
            /\ \A j \in 1..(i - 1) : ResolveColumnType(cols[j].type).ok

\* the type resolutions of the first n columns, in caller order
ResolveCalls(cols, n) ==
    [i \in 1..n |-> Call("ResolveType", cols[i].name, "",
                         IF ResolveColumnType(cols[i].type).ok
                         THEN ResolveColumnType(cols[i].type).sql ELSE "err")]

\* the Column structs handed to the template
ResolvedColumns(cols) ==
    [i \in DOMAIN cols |-> [name |-> cols[i].name,
                            type |-> ResolveColumnType(cols[i].type).sql]]

\* MapReferentialActionsEnumToString on every foreign key of the request
MappedForeignKeys(fks) ==
    [i \in DOMAIN fks |->
        [ColumnName |-> fks[i].ColumnName,
         ReferenceTableName |-> fks[i].ReferenceTableName,
         ReferenceColumnName |-> fks[i].ReferenceColumnName,
         OnUpdate |-> GetReferentialActionsFromEnum(fks[i].OnUpdate),
         OnDelete |-> GetReferentialActionsFromEnum(fks[i].OnDelete)]]

\* createTableTemplate.Execute, then on to Db.Exec
CreateTableRender(w, calls) ==
    \E fault \in {"none", "execute"} :
        IF fault = "execute"
        THEN /\ Return(w, Internal, "failed to execute template",
                       calls \o ExecuteCalls("create_table", fault))
             /\ UNCHANGED loc
        ELSE /\ Goto(w, "ct_exec", calls \o ExecuteCalls("create_table", fault))
             /\ loc' = [loc EXCEPT ![w].stmt =
                           CreateTableStmt(req[w].table, ResolvedColumns(req[w].cols),
                                           MappedForeignKeys(req[w].fks))]

\* a handler without the table gate
TableGateLeftOut(o) == FALSE

\* if tableExists { return AlreadyExists }
TableAlreadyExists(o) == o.val = "true"

CreateTableCheck(w) ==
    /\ pc[w] = "ct_table"
    /\ \E o \in CheckTableExists(req[w].table) :
         LET c == <<Call("CheckTableExists", req[w].table, "", Result(o))>> IN
         IF o.err
         THEN Return(w, Internal, "failed to check if table exists", c) /\ UNCHANGED loc
         ELSE IF TableAlreadyExists(o)
         THEN Return(w, "AlreadyExists", "table already exists", c) /\ UNCHANGED loc
         ELSE \E fault \in {"none", "read", "parse"} :
           LET bad == FirstInvalid(req[w].cols)
               n == IF bad = 0 THEN Len(req[w].cols) ELSE bad
               cs == c \o LoadCalls("create_table", fault)
           IN
           IF fault # "none"
           THEN /\ Return(w, Internal, TemplateMessage(fault, "failed to create table"), cs)
                /\ UNCHANGED loc
           ELSE IF bad # 0
           THEN /\ Return(w, "InvalidArgument", ResolveColumnType(req[w].cols[bad].type).msg,
                          cs \o ResolveCalls(req[w].cols, n))
                /\ UNCHANGED loc
           ELSE IF req[w].fks = <<>>
           THEN CreateTableRender(w, cs \o ResolveCalls(req[w].cols, n))
           ELSE /\ Goto(w, "ct_ref_table", cs \o ResolveCalls(req[w].cols, n))
                /\ loc' = [loc EXCEPT ![w].i = 1]
    /\ UNCHANGED <<schema, req>>

CreateTableRefTable(w) ==
    /\ pc[w] = "ct_ref_table"
    /\ LET fk == req[w].fks[loc[w].i] IN
       \E o \in CheckTableExists(fk.ReferenceTableName) :
         LET c == <<Call("CheckTableExists", fk.ReferenceTableName, "", Result(o))>> IN
         IF o.err
         THEN Return(w, Internal, "failed to check if reference table exists", c)
         ELSE IF o.val = "false"
         THEN Return(w, "NotFound", "reference table not found", c)
         ELSE Goto(w, "ct_ref_column", c)
    /\ UNCHANGED <<schema, req, loc>>

CreateTableRefColumn(w) ==
    /\ pc[w] = "ct_ref_column"
    /\ LET fk == req[w].fks[loc[w].i] IN
       \E o \in CheckColumnExists(fk.ReferenceTableName, fk.ReferenceColumnName) :
         LET c == <<Call("CheckColumnExists", fk.ReferenceTableName,
                         fk.ReferenceColumnName, Result(o))>> IN
         IF o.err
         THEN /\ Return(w, Internal, "failed to check if reference column exists", c)
              /\ UNCHANGED loc
         ELSE IF o.val = "false"
         THEN Return(w, "NotFound", "reference column not found", c) /\ UNCHANGED loc
         ELSE IF loc[w].i < Len(req[w].fks)
         THEN /\ Goto(w, "ct_ref_table", c)
              /\ loc' = [loc EXCEPT ![w].i = @ + 1]
         ELSE CreateTableRender(w, c)
    /\ UNCHANGED <<schema, req>>

CreateTableExec(w) ==
    /\ pc[w] = "ct_exec"
    /\ LET stmt == loc[w].stmt IN
         \/ /\ ExecOk(stmt)
            /\ Return(w, "OK", CreateTableText(stmt), ExecCall(stmt, "ok"))
         \/ /\ UNCHANGED schema
            /\ Return(w, Internal, "failed to create table", ExecCall(stmt, "err"))
    /\ UNCHANGED <<req, loc>>

(* ------------------------------ DropColumn ---------------------------- *)

DropColumnTable(w) ==
    /\ pc[w] = "dc_table"
    /\ \E o \in CheckTableExists(req[w].table) :
         LET c == <<Call("CheckTableExists", req[w].table, "", Result(o))>> IN
         IF o.err THEN Return(w, Internal, "failed to check if table exists", c)
         ELSE IF o.val = "false" THEN Return(w, "NotFound", "table not found", c)
         ELSE Goto(w, "dc_column", c)
    /\ UNCHANGED <<schema, req, loc>>

\* a handler without the column gate of DropColumn
DropColumnGateLeftOut(o) == FALSE

\* if !columnExists { return NotFound }
DropColumnMissing(o) == o.val = "false"

DropColumnColumn(w) ==
    /\ pc[w] = "dc_column"
    /\ \E o \in CheckColumnExists(req[w].table, req[w].column) :
         LET c == <<Call("CheckColumnExists", req[w].table, req[w].column, Result(o))>> IN
         IF o.err
         THEN Return(w, Internal, "failed to check if column exists", c) /\ UNCHANGED loc
         ELSE IF DropColumnMissing(o)
         THEN Return(w, "NotFound", "column not found", c) /\ UNCHANGED loc
         ELSE \E fault \in TemplateFaults :
           IF fault # "none"
           THEN /\ Return(w, Internal, TemplateMessage(fault, "failed to drop column"),
                          c \o TemplateCalls("drop_column", fault))
                /\ UNCHANGED loc
           ELSE /\ Goto(w, "dc_exec", c \o TemplateCalls("drop_column", fault))
                /\ loc' = [loc EXCEPT ![w].stmt = DropColumnStmt(req[w].table, req[w].column)]
    /\ UNCHANGED <<schema, req>>

DropColumnExec(w) ==
    /\ pc[w] = "dc_exec"
    /\ LET stmt == loc[w].stmt IN
         \/ /\ ExecOk(stmt)
            /\ Return(w, "OK", "column dropped", ExecCall(stmt, "ok"))
         \/ /\ UNCHANGED schema
            /\ Return(w, Internal, "failed to drop column", ExecCall(stmt, "err"))
    /\ UNCHANGED <<req, loc>>

(* ------------------------------- AddColumn ---------------------------- *)

AddColumnTable(w) ==
    /\ pc[w] = "ac_table"
    /\ \E o \in CheckTableExists(req[w].table) :
         LET c == <<Call("CheckTableExists", req[w].table, "", Result(o))>> IN
         IF o.err THEN Return(w, Internal, "failed to check if table exists", c)
         ELSE IF o.val = "false" THEN Return(w, "NotFound", "table not found", c)
         ELSE Goto(w, "ac_column", c)
    /\ UNCHANGED <<schema, req, loc>>

\* a handler without the column gate
ColumnGateLeftOut(o) == FALSE

\* if columnExists { return AlreadyExists }
ColumnAlreadyExists(o) == o.val = "true"

AddColumnColumn(w) ==
    /\ pc[w] = "ac_column"
    /\ LET col == req[w].cols[1] IN
       \E o \in CheckColumnExists(req[w].table, col.name) :
         LET c == <<Call("CheckColumnExists", req[w].table, col.name, Result(o))>>
             r == ResolveColumnType(col.type)
         IN
         IF o.err
         THEN Return(w, Internal, "failed to check if column exists", c) /\ UNCHANGED loc
         ELSE IF ColumnAlreadyExists(o)
         THEN Return(w, "AlreadyExists", "column already exists", c) /\ UNCHANGED loc
         ELSE \E fault \in TemplateFaults :
           LET cs == c \o LoadCalls("add_column", fault) IN
           IF fault \in {"read", "parse"}
           THEN /\ Return(w, Internal, TemplateMessage(fault, "failed to add column"), cs)
                /\ UNCHANGED loc
           ELSE IF ~r.ok
           THEN /\ Return(w, "InvalidArgument", r.msg, cs \o ResolveCalls(req[w].cols, 1))
                /\ UNCHANGED loc
           ELSE IF fault = "execute"
           THEN /\ Return(w, Internal, "failed to execute template",
                          cs \o ResolveCalls(req[w].cols, 1)
                             \o ExecuteCalls("add_column", fault))
                /\ UNCHANGED loc
           ELSE /\ Goto(w, "ac_exec", cs \o ResolveCalls(req[w].cols, 1)
                                         \o ExecuteCalls("add_column", fault))
                /\ loc' = [loc EXCEPT ![w].stmt = AddColumnStmt(req[w].table, col.name, r.sql)]
    /\ UNCHANGED <<schema, req>>

AddColumnExec(w) ==
    /\ pc[w] = "ac_exec"
    /\ LET stmt == loc[w].stmt IN
         \/ /\ ExecOk(stmt)
            /\ Return(w, "OK", "column added", ExecCall(stmt, "ok"))
         \/ /\ UNCHANGED schema
            /\ Return(w, Internal, "failed to add column", ExecCall(stmt, "err"))
    /\ UNCHANGED <<req, loc>>

(* ------------------------- ListTables, ListColumns -------------------- *)

\* the rows of the list_tables query: one per table of the database
TableRows == {[tableName |-> t] : t \in tables}

\* REFERENCED_TABLE_NAME of a constraint: the table name without its schema
ReferencedTableName(k) == IF k.refTable = SystemUsers THEN "users" ELSE k.refTable

\* the foreign key fields of the row of column c of table t: those of its
\* constraint, NULL when it has none
ForeignKeyFields(t, c) ==
    IF ConstraintsOn(t, c) = {}
    THEN [ReferenceTableName |-> NullValue, ReferenceColumnName |-> NullValue,
          OnUpdate |-> NullValue, OnDelete |-> NullValue]
    ELSE LET k == CHOOSE k \in ConstraintsOn(t, c) : TRUE IN
         [ReferenceTableName |-> Value(ReferencedTableName(k)),
          ReferenceColumnName |-> Value(k.refCol),
          OnUpdate |-> Value(k.onUpdate), OnDelete |-> Value(k.onDelete)]

\* shared.RawColumnDetails after rows.Scan of the row of column c: the
\* fourteen fields of the query; Precision and Scale are not among them and
\* keep their zero value
RawColumnDetails(t, c) ==
    [ColumnName |-> c.name, DataType |-> c.dataType, ColumnType |-> c.type,
     IsNullable |-> c.nullable, ColumnDefault |-> c.default,
     MaxLength |-> c.maxLength, Extra |-> c.extra,
     IsUnique |-> c.unique, IsPrimary |-> c.primary,
     IsForeign |-> ConstraintsOn(t, c.name) # {},
     ForeignKey |-> ForeignKeyFields(t, c.name),
     Precision |-> NullInt, Scale |-> NullInt]

\* the rows of the list_columns query: one per column of the table, in the
\* order of their ordinal positions
ColumnRows(t) ==
    [i \in 1..Cardinality(columns[t]) |->
        RawColumnDetails(t, CHOOSE c \in columns[t] : c.pos = i)]

\* strings.Contains(s, word), s held as its words
Contains(words, word) == \E i \in DOMAIN words : words[i] = word

Decoded(type) == [ok |-> TRUE, type |-> type]

\* a default arm that gives a Text column
DefaultedToText == [ok |-> TRUE, type |-> TextType]

Unsupported == [ok |-> FALSE, type |-> NilType]

\* the integer column of a row: unsigned when COLUMN_TYPE contains
\* "unsigned", auto increment when EXTRA is "auto_increment"
IntColumn(width, row) ==
    IntType(width, Contains(row.ColumnType, "unsigned"),
            Join(row.Extra) = "auto_increment")

GetColumnFromType(row) ==
    CASE row.DataType = "int" -> Decoded(IntColumn("INT", row))
      [] row.DataType = "bigint" -> Decoded(IntColumn("BIGINT", row))
      [] row.DataType = "smallint" -> Decoded(IntColumn("SMALLINT", row))
      [] row.DataType = "mediumint" -> Decoded(IntColumn("MEDIUMINT", row))
      [] row.DataType = "tinyint" -> Decoded(BoolType)
      [] row.DataType = "decimal" ->
           Decoded(DecimalType(row.Precision.Value, row.Scale.Value))
      [] row.DataType = "float" ->
           Decoded(FixedPointType("FLOAT", row.Precision.Value))
      [] row.DataType = "double" ->
           Decoded(FixedPointType("DOUBLE", row.Precision.Value))
      [] row.DataType = "text" -> Decoded(TextType)
      [] row.DataType = "varchar" -> Decoded(VarcharType(row.MaxLength.Value))
      [] row.DataType = "timestamp" -> Decoded(TimestampType)
      [] OTHER -> Unsupported

\* both fields read from OnUpdate
FieldsCrossed(rawKey) ==
    LET action == CASE rawKey.OnUpdate = "CASCADE" -> "CASCADE"
                    [] rawKey.OnUpdate = "SET NULL" -> "SET_NULL"
                    [] rawKey.OnUpdate = "RESTRICT" -> "RESTRICT"
                    [] OTHER -> "NO_ACTION"
    IN [OnUpdate |-> action, OnDelete |-> action]

MapReferentialActionsStringToEnum(rawKey) ==
    [OnUpdate |-> (CASE rawKey.OnUpdate = "CASCADE" -> "CASCADE"
                     [] rawKey.OnUpdate = "SET NULL" -> "SET_NULL"
                     [] rawKey.OnUpdate = "RESTRICT" -> "RESTRICT"
                     [] rawKey.OnUpdate = "NO ACTION" -> "NO_ACTION"
                     [] OTHER -> "NO_ACTION"),
     OnDelete |-> (CASE rawKey.OnDelete = "CASCADE" -> "CASCADE"
                     [] rawKey.OnDelete = "SET NULL" -> "SET_NULL"
                     [] rawKey.OnDelete = "RESTRICT" -> "RESTRICT"
                     [] rawKey.OnDelete = "NO ACTION" -> "NO_ACTION"
                     [] OTHER -> "NO_ACTION")]

\* the pb.Column of a row the handler appends to columns
ListedColumn(row) ==
    [Name |-> row.ColumnName,
     Type |-> GetColumnFromType(row).type,
     IsUnique |-> row.IsUnique,
     IsPrimaryKey |-> row.IsPrimary,
     NotNullable |-> (row.IsNullable = "NO"),
     DefaultValue |-> IF row.ColumnDefault.Valid THEN row.ColumnDefault.Value ELSE ""]

\* the pb.ForeignKey of a row the handler appends to foreignKeys
ListedForeignKey(row) ==
    LET actions == MapReferentialActionsStringToEnum(
                       [OnUpdate |-> row.ForeignKey.OnUpdate.Value,
                        OnDelete |-> row.ForeignKey.OnDelete.Value])
    IN [ColumnName |-> row.ColumnName,
        ReferenceTableName |-> row.ForeignKey.ReferenceTableName.Value,
        ReferenceColumnName |-> row.ForeignKey.ReferenceColumnName.Value,
        OnUpdate |-> actions.OnUpdate, OnDelete |-> actions.OnDelete]

\* a foreign key for every row
EveryRow(row) == TRUE

IsForeignRow(row) == row.IsForeign

\* pb.ListColumnsResponse of the rows
ListColumnsResponse(rows) ==
    [Columns |-> [i \in DOMAIN rows |-> ListedColumn(rows[i])],
     ForeignKeys |-> [i \in DOMAIN SelectSeq(rows, IsForeignRow) |->
                         ListedForeignKey(SelectSeq(rows, IsForeignRow)[i])]]

\* a query that empties the list of tables
TablesForgotten == tables' = {} /\ UNCHANGED <<columns, constraints>>

\* Db.Query of a SELECT on INFORMATION_SCHEMA: the schema stays as it is
ReadOnly == UNCHANGED schema

ListTablesQuery(w) ==
    /\ pc[w] = "lt_query"
    /\ \E fault \in TemplateFaults :
         LET cs == TemplateCalls("list_tables", fault) IN
         IF fault # "none"
         THEN Return(w, Internal, TemplateMessage(fault, "failed to list tables"), cs)
         ELSE \/ Return(w, Internal, "failed to list tables",
                        cs \o <<Call("Query", "list_tables", "", "err")>>)
              \/ /\ tables # {}
                 /\ Return(w, Internal, "failed to scan table details",
                           cs \o <<Call("Query", "list_tables", "", "ok"),
                                   Call("Scan", "list_tables", "", "err")>>)
              \/ ReturnRows(w, TableRows, cs \o <<Call("Query", "list_tables", "", "ok")>>)
    /\ ReadOnly /\ UNCHANGED <<req, loc>>

\* a loop that leaves out the rows it cannot decode
FailingRowsSkipped(rows) == TRUE

\* the loop over the rows got to its end: no row made it return
AllDecoded(rows) == \A i \in DOMAIN rows : GetColumnFromType(rows[i]).ok

ListColumnsTable(w) ==
    /\ pc[w] = "lc_table"
    /\ \E o \in CheckTableExists(req[w].table) :
         LET c == <<Call("CheckTableExists", req[w].table, "", Result(o))>> IN
         IF o.err THEN Return(w, Internal, "failed to check if table exists", c)
         ELSE IF o.val = "false" THEN Return(w, "NotFound", "table not found", c)
         ELSE \E fault \in TemplateFaults :
           IF fault # "none"
           THEN Return(w, Internal, TemplateMessage(fault, "failed to list columns"),
                       c \o TemplateCalls("list_columns", fault))
           ELSE Goto(w, "lc_query", c \o TemplateCalls("list_columns", fault))
    /\ ReadOnly /\ UNCHANGED <<req, loc>>

ListColumnsQuery(w) ==
    /\ pc[w] = "lc_query"
    /\ LET rows == ColumnRows(req[w].table) IN
       \/ Return(w, Internal, "failed to list columns",
                 <<Call("Query", "list_columns", req[w].table, "err")>>)
       \/ /\ rows # <<>>
          /\ Return(w, Internal, "failed to scan column details",
                    <<Call("Query", "list_columns", req[w].table, "ok"),
                      Call("Scan", "list_columns", req[w].table, "err")>>)
       \/ /\ ~AllDecoded(rows)
          /\ Return(w, Internal, "failed to get column from type",
                    <<Call("Query", "list_columns", req[w].table, "ok"),
                      Call("GetColumnFromType", "list_columns", req[w].table, "err")>>)
       \/ /\ AllDecoded(rows)
          /\ ReturnRows(w, ListColumnsResponse(rows),
                        <<Call("Query", "list_columns", req[w].table, "ok")>>)
    /\ ReadOnly /\ UNCHANGED <<req, loc>>

(* ----------------------------- AddForeignKey -------------------------- *)

AddForeignKeyTable(w) ==
    /\ pc[w] = "fk_table"
    /\ \E o \in CheckTableExists(req[w].table) :
         LET c == <<Call("CheckTableExists", req[w].table, "", Result(o))>> IN
         IF o.err THEN Return(w, Internal, "failed to check if table exists", c)
         ELSE IF o.val = "false" THEN Return(w, "NotFound", "table not found", c)
         ELSE Goto(w, "fk_column", c)
    /\ UNCHANGED <<schema, req, loc>>

AddForeignKeyColumn(w) ==
    /\ pc[w] = "fk_column"
    /\ LET fk == req[w].fks[1] IN
       \E o \in CheckColumnExists(req[w].table, fk.ColumnName) :
         LET c == <<Call("CheckColumnExists", req[w].table, fk.ColumnName, Result(o))>> IN
         IF o.err THEN Return(w, Internal, "failed to check if column exists", c)
         ELSE IF o.val = "true"
         THEN Return(w, "AlreadyExists", "column with this name already exists", c)
         ELSE Goto(w, "fk_ref_table", c)
    /\ UNCHANGED <<schema, req, loc>>

\* a handler that asks for the reference table unless its name is users
UsersExempt(refTable, o) == refTable # "users" /\ o.val = "false"

\* if !referenceTableExists { return NotFound }, whatever the name
ReferenceTableMissing(refTable, o) == o.val = "false"

AddForeignKeyRefTable(w) ==
    /\ pc[w] = "fk_ref_table"
    /\ LET fk == req[w].fks[1] IN
       \E o \in CheckTableExists(fk.ReferenceTableName) :
         LET c == <<Call("CheckTableExists", fk.ReferenceTableName, "", Result(o))>> IN
         IF o.err
         THEN Return(w, Internal, "failed to check if reference table exists", c)
         ELSE IF ReferenceTableMissing(fk.ReferenceTableName, o)
         THEN Return(w, "NotFound", "reference table not found", c)
         ELSE Goto(w, "fk_ref_column", c)
    /\ UNCHANGED <<schema, req, loc>>

\* a handler without the reference column gate
ReferenceColumnGateLeftOut(o) == FALSE

\* if !referenceColumnExists { return NotFound }
ReferenceColumnMissing(o) == o.val = "false"

AddForeignKeyRefColumn(w) ==
    /\ pc[w] = "fk_ref_column"
    /\ LET fk == req[w].fks[1] IN
       \E o \in CheckColumnExists(fk.ReferenceTableName, fk.ReferenceColumnName) :
         LET c == <<Call("CheckColumnExists", fk.ReferenceTableName,
                         fk.ReferenceColumnName, Result(o))>> IN
         IF o.err
         THEN Return(w, Internal, "failed to check if reference column exists", c)
         ELSE IF ReferenceColumnMissing(o)
         THEN Return(w, "NotFound", "reference column not found", c)
         ELSE Goto(w, "fk_type", c)
    /\ UNCHANGED <<schema, req, loc>>

AddForeignKeyType(w) ==
    /\ pc[w] = "fk_type"
    /\ LET fk == req[w].fks[1] IN
       \E o \in GetColumnTypeFromName(fk.ReferenceTableName, fk.ReferenceColumnName) :
         LET c == <<Call("GetColumnTypeFromName", fk.ReferenceTableName,
                         fk.ReferenceColumnName, Result(o))>> IN
         IF o.err
         THEN /\ Return(w, Internal, "failed to get reference column type", c)
              /\ UNCHANGED loc
         ELSE \E fault \in TemplateFaults :
           IF fault # "none"
           THEN /\ Return(w, Internal, TemplateMessage(fault, "failed to add foreign key"),
                          c \o TemplateCalls("add_foreign_key", fault))
                /\ UNCHANGED loc
           ELSE /\ Goto(w, "fk_exec", c \o TemplateCalls("add_foreign_key", fault))
                /\ loc' = [loc EXCEPT
                     ![w].columnType = o.val,
                     ![w].stmt = AddForeignKeyStmt(
                         req[w].table, fk.ColumnName, o.val,
                         fk.ReferenceTableName, fk.ReferenceColumnName,
                         GetReferentialActionsFromEnum(fk.OnUpdate),
                         GetReferentialActionsFromEnum(fk.OnDelete), req[w].notNull)]
    /\ UNCHANGED <<schema, req>>

AddForeignKeyExec(w) ==
    /\ pc[w] = "fk_exec"
    /\ LET stmt == loc[w].stmt IN
         \/ /\ ExecOk(stmt)
            /\ Return(w, "OK", "foreign key added", ExecCall(stmt, "ok"))
         \/ /\ UNCHANGED schema
            /\ Return(w, Internal, "failed to add foreign key", ExecCall(stmt, "err"))
    /\ UNCHANGED <<req, loc>>

(* ---------------------------- DropForeignKey -------------------------- *)

\* tx.Exec(stmt) on the MySQL connection of the transaction.  The statements
\* are ALTER TABLE statements, which MySQL commits implicitly: the schema
\* changes at once, for every connection, and no later ROLLBACK undoes it.
TxExecOk(stmt) == ExecOk(stmt)

\* a handler without the deferred rollback
NoRollback(tx) == tx

\* defer tx.Rollback(): rolls an open transaction back, and does nothing
\* (sql.ErrTxDone) once the transaction is committed
DeferredRollback(tx) == IF tx = "open" THEN "rolledback" ELSE tx

RollbackCalls(tx) ==
    <<Call("Rollback", "", "", IF tx = "open" THEN "ok" ELSE "ErrTxDone")>>

\* a return of DropForeignKey after Db.Begin: the deferred rollback runs
ReturnTx(w, code, msg, calls, tx) ==
    /\ Return(w, code, msg, calls \o RollbackCalls(tx))
    /\ loc' = [loc EXCEPT ![w].tx = DeferredRollback(tx)]

DropForeignKeyTable(w) ==
    /\ pc[w] = "df_table"
    /\ \E o \in CheckTableExists(req[w].table) :
         LET c == <<Call("CheckTableExists", req[w].table, "", Result(o))>> IN
         IF o.err THEN Return(w, Internal, "failed to check if table exists", c)
         ELSE IF o.val = "false" THEN Return(w, "NotFound", "table not found", c)
         ELSE Goto(w, "df_column", c)
    /\ UNCHANGED <<schema, req, loc>>

DropForeignKeyColumn(w) ==
    /\ pc[w] = "df_column"
    /\ \E o \in CheckColumnExists(req[w].table, req[w].column) :
         LET c == <<Call("CheckColumnExists", req[w].table, req[w].column, Result(o))>> IN
         IF o.err THEN Return(w, Internal, "failed to check if column exists", c)
         ELSE IF o.val = "false" THEN Return(w, "NotFound", "column not found", c)
         ELSE Goto(w, "df_constraint", c)
    /\ UNCHANGED <<schema, req, loc>>

DropForeignKeyConstraint(w) ==
    /\ pc[w] = "df_constraint"
    /\ \E o \in GetForeignKeyConstraint(req[w].table, req[w].column) :
         LET c == <<Call("GetForeignKeyConstraint", req[w].table, req[w].column, Result(o))>> IN
         IF o.err
         THEN /\ Return(w, Internal, "failed to get foreign key constraints", c)
              /\ UNCHANGED loc
         ELSE \E f1 \in TemplateFaults, f2 \in TemplateFaults :
           /\ f1 # "none" => f2 = "none"
           /\ IF f1 # "none"
              THEN /\ Return(w, Internal, TemplateMessage(f1, "failed to drop foreign key"),
                             c \o TemplateCalls("drop_foreign_key_constraint", f1))
                   /\ UNCHANGED loc
              ELSE IF f2 # "none"
              THEN /\ Return(w, Internal, TemplateMessage(f2, "failed to drop foreign key"),
                             c \o TemplateCalls("drop_foreign_key_constraint", f1)
                               \o TemplateCalls("drop_foreign_key_column", f2))
                   /\ UNCHANGED loc
              ELSE /\ Goto(w, "df_begin",
                           c \o TemplateCalls("drop_foreign_key_constraint", f1)
                             \o TemplateCalls("drop_foreign_key_column", f2))
                   /\ loc' = [loc EXCEPT
                        ![w].constraint = o.val,
                        ![w].stmt = DropConstraintStmt(req[w].table, o.val),
                        ![w].stmt2 = DropColumnStmt(req[w].table, req[w].column)]
    /\ UNCHANGED <<schema, req>>

DropForeignKeyBegin(w) ==
    /\ pc[w] = "df_begin"
    /\ \/ /\ Return(w, Internal, "failed to start transaction",
                    <<Call("Begin", "", "", "err")>>)
          /\ UNCHANGED loc
       \/ /\ Goto(w, "df_exec1", <<Call("Begin", "", "", "ok")>>)
          /\ loc' = [loc EXCEPT ![w].tx = "open"]
    /\ UNCHANGED <<schema, req>>

\* a handler that drops the column first
ColumnFirst(l) == l.stmt2

\* the statement of the first and of the second tx.Exec
FirstStatement(l) == l.stmt

SecondStatement(l) == l.stmt2

DropForeignKeyExec1(w) ==
    /\ pc[w] = "df_exec1"
    /\ LET stmt == FirstStatement(loc[w]) IN
         \/ /\ TxExecOk(stmt)
            /\ Goto(w, "df_exec2", ExecCall(stmt, "ok"))
            /\ UNCHANGED loc
         \/ /\ UNCHANGED schema
            /\ ReturnTx(w, Internal, "failed to drop foreign key constraint",
                        ExecCall(stmt, "err"), loc[w].tx)
    /\ UNCHANGED req

DropForeignKeyExec2(w) ==
    /\ pc[w] = "df_exec2"
    /\ LET stmt == SecondStatement(loc[w]) IN
         \/ /\ TxExecOk(stmt)
            /\ Goto(w, "df_commit", ExecCall(stmt, "ok"))
            /\ UNCHANGED loc
         \/ /\ UNCHANGED schema
            /\ ReturnTx(w, Internal, "failed to drop foreign key",
                        ExecCall(stmt, "err"), loc[w].tx)
    /\ UNCHANGED req

DropForeignKeyCommit(w) ==
    /\ pc[w] = "df_commit"
    /\ \/ ReturnTx(w, "OK", "foreign key dropped",
                   <<Call("Commit", "", "", "ok")>>, "committed")
       \/ ReturnTx(w, Internal, "failed to commit transaction",
                   <<Call("Commit", "", "", "err")>>, loc[w].tx)
    /\ UNCHANGED <<schema, req>>

\* one step of the handler worker w runs
Step(w) ==
    \/ CreateTableCheck(w)
    \/ CreateTableRefTable(w)
    \/ CreateTableRefColumn(w)
    \/ CreateTableExec(w)
    \/ DropTableCheck(w)
    \/ DropTableExec(w)
    \/ DropColumnTable(w)
    \/ DropColumnColumn(w)
    \/ DropColumnExec(w)
    \/ AddColumnTable(w)
    \/ AddColumnColumn(w)
    \/ AddColumnExec(w)
    \/ ListTablesQuery(w)
    \/ ListColumnsTable(w)
    \/ ListColumnsQuery(w)
    \/ AddForeignKeyTable(w)
    \/ AddForeignKeyColumn(w)
    \/ AddForeignKeyRefTable(w)
    \/ AddForeignKeyRefColumn(w)
    \/ AddForeignKeyType(w)
    \/ AddForeignKeyExec(w)
    \/ DropForeignKeyTable(w)
    \/ DropForeignKeyColumn(w)
    \/ DropForeignKeyConstraint(w)
    \/ DropForeignKeyBegin(w)
    \/ DropForeignKeyExec1(w)
    \/ DropForeignKeyExec2(w)
    \/ DropForeignKeyCommit(w)

\* the service with one request in flight at a time
Server == "w1"

Next ==
    \/ Start(Server, Requests)
    \/ Finish(Server)
    \/ Step(Server)

Spec == Init /\ [][Next]_vars

\* the service with two requests in flight
NextConcurrent ==
    \E w \in Workers :
        \/ Start(w, ConcurrentRequests)
        \/ Finish(w)
        \/ Step(w)

SpecConcurrent == Init /\ [][NextConcurrent]_vars

(* ------------------------ calls of the helpers ------------------------ *)

\* a helper returns (value, err): the value, or the message of the error
Returned(w, r) ==
    IF r.ok THEN Return(w, "OK", r.sql, <<>>) ELSE Return(w, "error", r.msg, <<>>)

CallGetDecimalColumnType(w) ==
    /\ pc[w] = "h_decimal"
    /\ Returned(w, GetDecimalColumnType(req[w].cols[1].type))
    /\ UNCHANGED <<schema, req, loc>>

CallGetFixedPointColumnType(w) ==
    /\ pc[w] = "h_fixed"
    /\ Returned(w, GetFixedPointColumnType(req[w].cols[1].type))
    /\ UNCHANGED <<schema, req, loc>>

CallGetColumnFromType(w) ==
    /\ pc[w] = "h_decode"
    /\ LET r == GetColumnFromType(req[w].cols[1]) IN
       IF r.ok THEN ReturnRows(w, r.type, <<>>)
       ELSE Return(w, "error", "unsupported column type", <<>>)
    /\ UNCHANGED <<schema, req, loc>>

CallGetReferentialActionsFromEnum(w) ==
    /\ pc[w] = "h_enum"
    /\ Return(w, "OK", GetReferentialActionsFromEnum(req[w].column), <<>>)
    /\ UNCHANGED <<schema, req, loc>>

\* the caller maps the actions of a pb.ForeignKey to a shared.ForeignKey and
\* goes on to map that one back
CallMapReferentialActionsEnumToString(w) ==
    /\ pc[w] = "h_key"
    /\ loc' = [loc EXCEPT ![w].rawKey =
                  [OnUpdate |-> GetReferentialActionsFromEnum(req[w].fks[1].OnUpdate),
                   OnDelete |-> GetReferentialActionsFromEnum(req[w].fks[1].OnDelete)]]
    /\ Goto(w, "h_string", <<>>)
    /\ UNCHANGED <<schema, req>>

\* the shared.ForeignKey handed to MapReferentialActionsStringToEnum: that
\* of the request, or the one mapped from the pb.ForeignKey of the request
RawKeyOf(w) ==
    IF req[w].op = "MapReferentialActionsEnumToString" THEN loc[w].rawKey
    ELSE req[w].fks[1]

CallMapReferentialActionsStringToEnum(w) ==
    /\ pc[w] = "h_string"
    /\ ReturnRows(w, MapReferentialActionsStringToEnum(RawKeyOf(w)), <<>>)
    /\ UNCHANGED <<schema, req, loc>>

\* the service over a database in which table posts was made beforehand,
\* by the service or by another client of the database
InitIntrospect ==
    /\ tables = {"posts"}
    /\ \E found \in FoundTables :
         /\ columns = [t \in TableNames |-> IF t = "posts" THEN found.columns ELSE {}]
         /\ constraints = [t \in TableNames |->
                              IF t = "posts" THEN found.constraints ELSE {}]
    /\ pc = [w \in Workers |-> "idle"]
    /\ req = [w \in Workers |-> NoRequest]
    /\ loc = [w \in Workers |-> NoLocals]
    /\ trace = [w \in Workers |-> <<>>]
    /\ resp = [w \in Workers |-> NoResponse]

NextIntrospect ==
    \/ Start(Server, IntrospectRequests)
    \/ Finish(Server)
    \/ CreateTableCheck(Server)
    \/ CreateTableRefTable(Server)
    \/ CreateTableRefColumn(Server)
    \/ CreateTableExec(Server)
    \/ AddColumnTable(Server)
    \/ AddColumnColumn(Server)
    \/ AddColumnExec(Server)
    \/ ListColumnsTable(Server)
    \/ ListColumnsQuery(Server)

SpecIntrospect == InitIntrospect /\ [][NextIntrospect]_vars

\* the helpers of package utils, called one at a time
NextCodec ==
    \/ Start(Server, HelperCalls)
    \/ Finish(Server)
    \/ CallGetDecimalColumnType(Server)
    \/ CallGetFixedPointColumnType(Server)
    \/ CallGetColumnFromType(Server)
    \/ CallGetReferentialActionsFromEnum(Server)
    \/ CallMapReferentialActionsEnumToString(Server)
    \/ CallMapReferentialActionsStringToEnum(Server)

SpecCodec == Init /\ [][NextCodec]_vars

(* ------------------------------- claims ------------------------------- *)

\* worker w has made the call
Made(w, call) == \E i \in DOMAIN trace[w] : trace[w][i] = call

DropForeignKeyDone(w) == pc[w] = "done" /\ req[w].op = "DropForeignKey"

\* the first statement succeeded and the second one failed
SecondStatementFailed(w) ==
    /\ DropForeignKeyDone(w)
    /\ Made(w, Call("Exec", "DROP FOREIGN KEY", req[w].table, "ok"))
    /\ Made(w, Call("Exec", "DROP COLUMN", req[w].table, "err"))

\* C1: when the second statement of DropForeignKey fails after the first one
\* succeeded, the operation returns an error and the database still holds
\* both the constraint the request looked up and the column.
C1_NoPartialState ==
    \A w \in Workers :
        SecondStatementFailed(w) =>
            /\ resp[w].code = "Internal"
            /\ HasColumn(req[w].table, req[w].column)
            /\ loc[w].constraint \in {k.name : k \in ConstraintsOn(req[w].table, req[w].column)}

\* the statements of a DropForeignKey request are in flight: the constraint
\* name is looked up and the handler has not returned
InFlight(w) ==
    /\ req[w].op = "DropForeignKey"
    /\ pc[w] \in {"df_begin", "df_exec1", "df_exec2", "df_commit"}
    /\ loc[w].constraint # ""

\* C2: while a DropForeignKey request is in flight, no other request observes
\* the column without its foreign-key constraint: a ListColumns query of
\* another request that returns the column returns it as a foreign key.
C2_SingleVisibleUnit ==
    [][\A w, v \in Workers :
          (/\ w # v
           /\ InFlight(w)
           /\ req[v].op = "ListColumns" /\ req[v].table = req[w].table
           /\ pc[v] = "lc_query" /\ pc'[v] = "done" /\ resp'[v].code = "OK")
          => \A i \in DOMAIN resp'[v].rows.Columns :
                resp'[v].rows.Columns[i].Name = req[w].column =>
                   \E j \in DOMAIN resp'[v].rows.ForeignKeys :
                      resp'[v].rows.ForeignKeys[j].ColumnName = req[w].column]_vars

\* the transaction handle once the handler has returned
Closed(tx) == tx \in {"committed", "rolledback"}

Gate(name, a, b, pass, code, msg, errCode) ==
    [name |-> name, a |-> a, b |-> b, pass |-> pass, code |-> code, msg |-> msg,
     errCode |-> errCode]

TableGate(t, pass, code, msg) == Gate("CheckTableExists", t, "", pass, code, msg, "Internal")

ColumnGate(t, c, pass, code, msg) ==
    Gate("CheckColumnExists", t, c, pass, code, msg, "Internal")

TypeGate(c) == Gate("ResolveType", c, "", "any", "", "", "InvalidArgument")

LoadGates(name) ==
    <<Gate("ReadTemplateFile", name, "", "ok", "", "", "Internal"),
      Gate("Parse", name, "", "ok", "", "", "Internal")>>

ExecuteGate(name) == <<Gate("Execute", name, "", "ok", "", "", "Internal")>>

StatementGate(kind, t) == Gate("Exec", kind, t, "ok", "", "", "Internal")

\* the reference table and reference column checks of the foreign keys, in
\* caller order
ReferenceGates(fks) ==
    [i \in 1..(2 * Len(fks)) |->
        IF i % 2 = 1
        THEN TableGate(fks[(i + 1) \div 2].ReferenceTableName, "true",
                       "NotFound", "reference table not found")
        ELSE ColumnGate(fks[i \div 2].ReferenceTableName,
                        fks[i \div 2].ReferenceColumnName, "true",
                        "NotFound", "reference column not found")]

CreateTableGates(r) ==
    <<TableGate(r.table, "false", "AlreadyExists", "table already exists")>>
      \o LoadGates("create_table")
      \o [i \in DOMAIN r.cols |-> TypeGate(r.cols[i].name)]
      \o ReferenceGates(r.fks)
      \o ExecuteGate("create_table")
      \o <<StatementGate("CREATE TABLE IF NOT EXISTS", r.table)>>

DropTableGates(r) ==
    <<TableGate(r.table, "true", "NotFound", "table not found"),
      StatementGate("DROP TABLE", r.table)>>

AddColumnGates(r) ==
    <<TableGate(r.table, "true", "NotFound", "table not found"),
      ColumnGate(r.table, r.cols[1].name, "false", "AlreadyExists", "column already exists")>>
      \o LoadGates("add_column")
      \o <<TypeGate(r.cols[1].name)>>
      \o ExecuteGate("add_column")
      \o <<StatementGate("ADD COLUMN", r.table)>>

DropColumnGates(r) ==
    <<TableGate(r.table, "true", "NotFound", "table not found"),
      ColumnGate(r.table, r.column, "true", "NotFound", "column not found")>>
      \o LoadGates("drop_column") \o ExecuteGate("drop_column")
      \o <<StatementGate("DROP COLUMN", r.table)>>

\* the gates of AddForeignKey; lookup: whether the reference column type is
\* looked up
AddForeignKeyGates(r, lookup) ==
    <<TableGate(r.table, "true", "NotFound", "table not found"),
      ColumnGate(r.table, r.fks[1].ColumnName, "false", "AlreadyExists",
                 "column with this name already exists")>>
      \o ReferenceGates(r.fks)
      \o (IF lookup
          THEN <<Gate("GetColumnTypeFromName", r.fks[1].ReferenceTableName,
                      r.fks[1].ReferenceColumnName, "any", "", "", "Internal")>>
          ELSE <<>>)
      \o LoadGates("add_foreign_key") \o ExecuteGate("add_foreign_key")
      \o <<StatementGate("ADD FOREIGN KEY", r.table)>>

DropForeignKeyGates(r) ==
    <<TableGate(r.table, "true", "NotFound", "table not found"),
      ColumnGate(r.table, r.column, "true", "NotFound", "column not found"),
      Gate("GetForeignKeyConstraint", r.table, r.column, "any", "", "", "Internal")>>
      \o LoadGates("drop_foreign_key_constraint")
      \o ExecuteGate("drop_foreign_key_constraint")
      \o LoadGates("drop_foreign_key_column") \o ExecuteGate("drop_foreign_key_column")
      \o <<Gate("Begin", "", "", "ok", "", "", "Internal"),
           StatementGate("DROP FOREIGN KEY", r.table),
           StatementGate("DROP COLUMN", r.table),
           Gate("Commit", "", "", "ok", "", "", "Internal")>>

Gates(r) ==
    CASE r.op = "CreateTable" -> CreateTableGates(r)
      [] r.op = "DropTable" -> DropTableGates(r)
      [] r.op = "AddColumn" -> AddColumnGates(r)
      [] r.op = "DropColumn" -> DropColumnGates(r)
      [] r.op = "AddForeignKey" -> AddForeignKeyGates(r, TRUE)
      [] r.op = "DropForeignKey" -> DropForeignKeyGates(r)
      [] OTHER -> <<>>

Passed(g, result) == IF g.pass = "any" THEN result # "err" ELSE result = g.pass

NotRollback(c) == c[1] # "Rollback"

\* the calls worker w has made, the deferred rollback left out
Calls(w) == SelectSeq(trace[w], NotRollback)

\* worker w has gone through the gates in their order: every call it made is
\* the next gate, every call but the last one passed, a call that did not
\* pass ended the handler with the status of that gate, and the handler
\* succeeded only when every gate passed
InGateOrder(w, gates) ==
    LET t == Calls(w) IN
    /\ Len(t) <= Len(gates)
    /\ \A i \in DOMAIN t :
          /\ <<t[i][1], t[i][2], t[i][3]>> = <<gates[i].name, gates[i].a, gates[i].b>>
          /\ i < Len(t) => Passed(gates[i], t[i][4])
    /\ (t # <<>> /\ Len(t) <= Len(gates) /\ ~Passed(gates[Len(t)], t[Len(t)][4])) =>
          /\ pc[w] = "done"
          /\ resp[w].code = IF t[Len(t)][4] = "err" THEN gates[Len(t)].errCode
                            ELSE gates[Len(t)].code
          /\ gates[Len(t)].msg # "" /\ t[Len(t)][4] # "err" =>
                resp[w].msg = gates[Len(t)].msg
    /\ (pc[w] = "done" /\ resp[w].code = "OK") =>
          /\ Len(t) = Len(gates)
          /\ \A i \in DOMAIN t : Passed(gates[i], t[i][4])

IsCheck(c) == c[1] \in {"CheckTableExists", "CheckColumnExists"}

IsCheckGate(g) == g.name \in {"CheckTableExists", "CheckColumnExists"}

IsStatement(c) == c[1] = "Exec"

IsDone(c) == c[1] = "Exec" /\ c[4] = "ok"

Mutating ==
    {"CreateTable", "DropTable", "AddColumn", "DropColumn", "AddForeignKey", "DropForeignKey"}

\* before its i-th call, request r has made every existence check it has to
\* make, and every one has passed
ChecksPassedBefore(t, i, r) ==
    LET made == SelectSeq(SubSeq(t, 1, i - 1), IsCheck)
        need == SelectSeq(Gates(r), IsCheckGate)
    IN /\ Len(made) = Len(need)
       /\ \A j \in DOMAIN made :
             made[j] = Call(need[j].name, need[j].a, need[j].b, need[j].pass)

\* C4: a mutating operation issues no statement before every existence check
\* of the request, those of every foreign key included, has passed; a request
\* that returns NotFound or AlreadyExists has made a check that did not pass
\* and has issued no statement; and a step in which no statement is carried
\* out leaves the schema as it is.
C4_ChecksBeforeStatements ==
    [][/\ \A w \in Workers : req'[w].op \in Mutating =>
             LET t == trace'[w] IN
             /\ \A i \in DOMAIN t : IsStatement(t[i]) => ChecksPassedBefore(t, i, req'[w])
             /\ resp'[w].code \in {"NotFound", "AlreadyExists"} =>
                   /\ t # <<>> /\ IsCheck(t[Len(t)])
                   /\ t[Len(t)][4] = IF resp'[w].code = "NotFound" THEN "false" ELSE "true"
                   /\ SelectSeq(t, IsStatement) = <<>>
       /\ (\A w \in Workers :
              Len(SelectSeq(trace'[w], IsDone)) <= Len(SelectSeq(trace[w], IsDone)))
            => schema' = schema]_vars

\* CreateTable with two foreign keys returned NotFound at the reference
\* column check of the second one, the table still missing
C4_Witness ==
    /\ pc[Server] = "done" /\ req[Server].op = "CreateTable"
    /\ Len(req[Server].fks) = 2
    /\ resp[Server].code = "NotFound" /\ resp[Server].msg = "reference column not found"
    /\ Len(SelectSeq(trace[Server], IsCheck)) = 5
    /\ ~HasTable(req[Server].table)

\* C5: CreateTable on a table that exists returns AlreadyExists after the
\* table check alone: no type resolution, no reference check, no template
\* step and no statement, whatever the request holds.
C5_ExistingTableStopsAtOnce ==
    \A w \in Workers :
        (/\ req[w].op = "CreateTable" /\ trace[w] # <<>>
         /\ trace[w][1] = Call("CheckTableExists", req[w].table, "", "true")) =>
            /\ pc[w] = "done"
            /\ resp[w].code = "AlreadyExists"
            /\ trace[w] = <<Call("CheckTableExists", req[w].table, "", "true")>>
            /\ loc[w].stmt = NoStmt

\* CreateTable with an invalid column and a foreign key found the table
C5_Witness ==
    /\ pc[Server] = "done" /\ req[Server].op = "CreateTable"
    /\ resp[Server].code = "AlreadyExists"
    /\ \E i \in DOMAIN req[Server].cols : ~ResolveColumnType(req[Server].cols[i].type).ok
    /\ req[Server].fks # <<>>
    /\ HasTable(req[Server].table)

\* the indices of the columns whose type does not resolve
InvalidColumns(r) == {i \in DOMAIN r.cols : ~ResolveColumnType(r.cols[i].type).ok}

Least(S) == CHOOSE i \in S : \A j \in S : i <= j

\* C6: CreateTable goes through table-not-exists, the type resolution of the
\* columns in caller order, the reference checks of the foreign keys in caller
\* order and one statement, and returns the error of the first gate that
\* fails; with an invalid column it returns InvalidArgument for the first such
\* column and makes no reference check.
C6_CreateTableGateOrder ==
    \A w \in Workers : req[w].op = "CreateTable" =>
        LET t == Calls(w)
            r == req[w]
        IN
        /\ InGateOrder(w, CreateTableGates(r))
        /\ Len(SelectSeq(t, IsStatement)) <= 1
        /\ (InvalidColumns(r) # {} /\ Len(t) > 3) =>
              /\ pc[w] = "done"
              /\ resp[w].code = "InvalidArgument"
              /\ resp[w].msg = ResolveColumnType(r.cols[Least(InvalidColumns(r))].type).msg
              /\ Len(t) = 3 + Least(InvalidColumns(r))
              /\ \A i \in DOMAIN t : i > 1 => ~IsCheck(t[i])

\* CreateTable with a valid column, then an invalid one, and a foreign key
\* to a missing table returned InvalidArgument
C6_Witness ==
    /\ pc[Server] = "done" /\ req[Server].op = "CreateTable"
    /\ InvalidColumns(req[Server]) = {2}
    /\ req[Server].fks # <<>>
    /\ ~HasTable(req[Server].fks[1].ReferenceTableName)
    /\ resp[Server].code = "InvalidArgument"

\* C7: AddForeignKey goes through table-exists, column-not-exists,
\* reference-table-exists, reference-column-exists, the reference column type
\* lookup and one statement, and makes no type lookup when the reference
\* table is users.
C7_LookupSkippedForUsers ==
    \A w \in Workers : req[w].op = "AddForeignKey" =>
        InGateOrder(w, AddForeignKeyGates(req[w],
                                          req[w].fks[1].ReferenceTableName # "users"))

\* C8: the statement AddForeignKey renders gives the new column the type
\* BIGINT UNSIGNED when the reference table is users, whatever type the lookup
\* returned, and the very string the lookup returned for any other table.
C8_RenderedColumnType ==
    \A w \in Workers :
        (req[w].op = "AddForeignKey" /\ loc[w].stmt # NoStmt) =>
            /\ Len(trace[w]) >= 5
            /\ trace[w][5][1] = "GetColumnTypeFromName"
            /\ loc[w].stmt.kind = "ADD FOREIGN KEY"
            /\ loc[w].stmt.type =
                  IF req[w].fks[1].ReferenceTableName = "users"
                  THEN "BIGINT UNSIGNED" ELSE trace[w][5][4]

\* AddForeignKey to users succeeded after a lookup that returned another
\* string than BIGINT UNSIGNED
C8_Witness ==
    /\ pc[Server] = "done" /\ req[Server].op = "AddForeignKey"
    /\ req[Server].fks[1].ReferenceTableName = "users"
    /\ resp[Server].code = "OK"
    /\ trace[Server][5][4] # "BIGINT UNSIGNED"
    /\ loc[Server].stmt.type = "BIGINT UNSIGNED"

\* C9: DropForeignKey goes through table-exists (NotFound), column-exists
\* (NotFound) and the constraint lookup, then opens one transaction and
\* issues two statements in it, drop constraint then drop column; it succeeds
\* only when both statements and the commit succeeded.
C9_DropForeignKeyGateOrder ==
    \A w \in Workers : req[w].op = "DropForeignKey" =>
        LET t == Calls(w) IN
        /\ InGateOrder(w, DropForeignKeyGates(req[w]))
        /\ Len(SelectSeq(t, IsStatement)) <= 2
        /\ loc[w].stmt # NoStmt =>
              /\ loc[w].stmt = DropConstraintStmt(req[w].table, t[3][4])
              /\ loc[w].stmt2 = DropColumnStmt(req[w].table, req[w].column)
        /\ (pc[w] = "done" /\ resp[w].code = "OK") =>
              /\ SelectSeq(t, IsStatement) =
                    <<Call("Exec", "DROP FOREIGN KEY", req[w].table, "ok"),
                      Call("Exec", "DROP COLUMN", req[w].table, "ok")>>
              /\ t[Len(t)] = Call("Commit", "", "", "ok")
              /\ loc[w].tx = "committed"

\* DropForeignKey succeeded: the column and its constraint are gone
C9_Witness ==
    /\ DropForeignKeyDone(Server)
    /\ resp[Server].code = "OK"
    /\ loc[Server].constraint # ""
    /\ HasTable(req[Server].table)
    /\ ~HasColumn(req[Server].table, req[Server].column)

\* C10: AddColumn goes through table-exists (NotFound), column-not-exists
\* (AlreadyExists), type resolution (InvalidArgument) and one ALTER statement,
\* returns the error of the first gate that fails, and issues no statement
\* when a gate fails.
C10_AddColumnGateOrder ==
    \A w \in Workers : req[w].op = "AddColumn" =>
        LET t == Calls(w) IN
        /\ InGateOrder(w, AddColumnGates(req[w]))
        /\ Len(SelectSeq(t, IsStatement)) <= 1
        /\ (pc[w] = "done" /\ resp[w].code \in {"NotFound", "AlreadyExists", "InvalidArgument"})
              => SelectSeq(t, IsStatement) = <<>>
        /\ (pc[w] = "done" /\ resp[w].code = "InvalidArgument") =>
              /\ ~ResolveColumnType(req[w].cols[1].type).ok
              /\ resp[w].msg = ResolveColumnType(req[w].cols[1].type).msg

\* AddColumn of an invalid type, on a table without the column, returned
\* InvalidArgument
C10_Witness ==
    /\ pc[Server] = "done" /\ req[Server].op = "AddColumn"
    /\ resp[Server].code = "InvalidArgument"
    /\ HasTable(req[Server].table)
    /\ ~HasColumn(req[Server].table, req[Server].cols[1].name)

\* the facts of the columns but their ordinal positions
Facts(cols) == {[c EXCEPT !.pos = 0] : c \in cols}

\* C11: DropColumn goes through table-exists (NotFound "table not found"),
\* column-exists (NotFound "column not found") and one statement; when it
\* succeeds the column is gone and every table and every other column is as
\* it was, the other columns in the order they had.
C11_DropColumnGateOrder ==
    [][\A w \in Workers : req'[w].op = "DropColumn" =>
          /\ InGateOrder(w, DropColumnGates(req[w]))'
          /\ Len(SelectSeq(trace'[w], IsStatement)) <= 1
          /\ (pc[w] = "dc_exec" /\ resp'[w].code = "OK") =>
                /\ HasColumn(req[w].table, req[w].column)
                /\ ~HasColumn(req[w].table, req[w].column)'
                /\ tables' = tables
                /\ constraints' = constraints
                /\ \A u \in TableNames \ {req[w].table} : columns'[u] = columns[u]
                /\ Facts(columns'[req[w].table]) =
                      Facts({x \in columns[req[w].table] : x.name # req[w].column})
                /\ \A x, y \in columns[req[w].table], x2, y2 \in columns'[req[w].table] :
                      (x.name = x2.name /\ y.name = y2.name /\ x.pos < y.pos)
                         => x2.pos < y2.pos]_vars

\* DropColumn succeeded: the column is gone, the other columns are there
C11_Witness ==
    /\ pc[Server] = "done" /\ req[Server].op = "DropColumn"
    /\ resp[Server].code = "OK"
    /\ ~HasColumn(req[Server].table, req[Server].column)
    /\ HasColumn(req[Server].table, "id")
    /\ Len(trace[Server]) = 6

\* the type resolutions a handler has logged, each with the column type of
\* the request it resolved (the requests here carry one column)
Resolutions(w) ==
    {[type |-> req[w].cols[1].type, result |-> call[4]] :
        call \in {c \in Range(trace[w]) : c[1] = "ResolveType"}}

\* the encoding table of the type variants: the fragment of a valid
\* variant, "err" for an absent, unrecognized or out-of-bounds one
Encoding(tv) ==
    CASE tv.kind = "int" /\ tv.width \in IntWidths ->
           tv.width \o (IF tv.unsigned THEN " UNSIGNED" ELSE "")
                    \o (IF tv.autoInc THEN " AUTO_INCREMENT" ELSE "")
      [] tv.kind = "varchar" /\ tv.n1 >= 1 /\ tv.n1 <= 65535 ->
           "VARCHAR(" \o ToString(tv.n1) \o ")"
      [] tv.kind = "decimal" /\ tv.n1 # 0 /\ tv.n2 # 0 ->
           "DECIMAL(" \o ToString(tv.n1) \o ", " \o ToString(tv.n2) \o ")"
      [] tv.kind = "fixed" /\ tv.width \in {"FLOAT", "DOUBLE"} ->
           tv.width \o "(" \o ToString(tv.n1) \o ")"
      [] tv.kind = "bool" -> "BOOLEAN"
      [] tv.kind = "timestamp" -> "TIMESTAMP"
      [] tv.kind = "text" -> "TEXT"
      [] OTHER -> "err"

\* C12: the type resolution of CreateTable and AddColumn gives every type
\* variant the fragment of the encoding table (Decimal, FixedPoint and Text
\* among them) and fails only for an absent or unrecognized variant or a
\* violated bound.
C12_EveryVariantEncoded ==
    \A w \in Workers : req[w].op \in {"CreateTable", "AddColumn"} =>
        \A r \in Resolutions(w) : r.result = Encoding(r.type)

\* C13: a Varchar type resolves, to VARCHAR(length), exactly when its length
\* is from 1 to 65535; with any other length the request is answered
\* InvalidArgument and no statement is run.
C13_VarcharBounds ==
    \A w \in Workers :
        (req[w].op \in {"CreateTable", "AddColumn"} /\ req[w].cols # <<>>
           /\ req[w].cols[1].type.kind = "varchar") =>
        LET n == req[w].cols[1].type.n1 IN
        /\ \A r \in Resolutions(w) :
              r.result = IF 1 <= n /\ n <= 65535
                         THEN "VARCHAR(" \o ToString(n) \o ")" ELSE "err"
        /\ (Resolutions(w) # {} /\ ~(1 <= n /\ n <= 65535)) =>
              /\ pc[w] = "done" /\ resp[w].code = "InvalidArgument"
              /\ SelectSeq(trace[w], IsStatement) = <<>>
        /\ (pc[w] = "done" /\ resp[w].code = "InvalidArgument") =>
              ~(1 <= n /\ n <= 65535)

\* AddColumn resolved a Varchar of length 65535 and goes on to its statement
C13_Witness ==
    /\ req[Server].op = "AddColumn" /\ pc[Server] = "ac_exec"
    /\ [type |-> VarcharType(65535), result |-> "VARCHAR(65535)"] \in Resolutions(Server)

\* C14: GetDecimalColumnType rejects a Decimal whose precision or scale is
\* 0 and gives every other one DECIMAL(precision, scale); Decimal(10,2) is
\* accepted.
C14_DecimalEncoding ==
    \A w \in Workers :
        (req[w].op = "GetDecimalColumnType" /\ pc[w] = "done") =>
        LET tv == req[w].cols[1].type IN
        IF tv.n1 = 0 \/ tv.n2 = 0
        THEN resp[w].code = "error"
        ELSE /\ resp[w].code = "OK"
             /\ resp[w].msg = "DECIMAL(" \o ToString(tv.n1) \o ", " \o ToString(tv.n2) \o ")"

\* GetDecimalColumnType returned DECIMAL(10, 2) for Decimal(10,2)
C14_Witness ==
    /\ req[Server].op = "GetDecimalColumnType" /\ pc[Server] = "done"
    /\ req[Server].cols[1].type = DecimalType(10, 2)
    /\ resp[Server].code = "OK" /\ resp[Server].msg = "DECIMAL(10, 2)"

\* the facts of a column that its data type decides
TypeFacts(c) ==
    [dataType |-> c.dataType, type |-> c.type, extra |-> c.extra,
     maxLength |-> c.maxLength, precision |-> c.precision, scale |-> c.scale]

\* column c is the column a definition with the fragment of tv makes
EncodedAs(c, tv) ==
    /\ Encoding(tv) # "err"
    /\ TypeFacts(c) = TypeFacts(EngineColumn("", 0, tv, FALSE, FALSE, FALSE, NullValue, <<>>))

\* the column of table t at ordinal position i
ColumnAt(t, i) == CHOOSE c \in columns[t] : c.pos = i

\* the variant a round trip gives: the original, Bool for a TINYINT
RoundTrip(tv) ==
    IF tv.kind = "int" /\ tv.width = "TINYINT" THEN BoolType ELSE tv

\* C15: a column made from the fragment of a type variant is listed by
\* ListColumns with that variant and its parameters (Int width, unsigned and
\* autoIncrement, Varchar length, Decimal precision and scale, FixedPoint
\* kind and precision), a TINYINT as Bool.
C15_RoundTrip ==
    \A w \in Workers :
        (req[w].op = "ListColumns" /\ pc[w] = "done" /\ resp[w].code = "OK") =>
        \A i \in DOMAIN resp[w].rows.Columns : \A tv \in SqlTypes :
            EncodedAs(ColumnAt(req[w].table, i), tv) =>
                resp[w].rows.Columns[i].Type = RoundTrip(tv)

\* the data types the decoder is to know
KnownDataTypes ==
    {"int", "bigint", "smallint", "mediumint", "tinyint", "varchar", "decimal",
     "float", "double", "text", "timestamp"}

\* the kind of variant a known data type decodes to
KindOf(dataType) ==
    CASE dataType \in {"int", "bigint", "smallint", "mediumint"} -> "int"
      [] dataType = "tinyint" -> "bool"
      [] dataType \in {"float", "double"} -> "fixed"
      [] OTHER -> dataType

\* the query of ListColumns and the scan of its rows went through
RowsRead(w) ==
    /\ \E i \in DOMAIN trace[w] : trace[w][i][1] = "Query" /\ trace[w][i][4] = "ok"
    /\ \A i \in DOMAIN trace[w] : trace[w][i][1] # "Scan"

\* C16: ListColumns decodes a row of every data type in int, bigint,
\* smallint, mediumint, tinyint, varchar, decimal, float, double, text and
\* timestamp to the variant of that data type; a row of any other data type
\* makes it fail, and is neither left out of the columns nor given a variant.
C16_UnknownDataTypeFails ==
    \A w \in Workers :
        (req[w].op = "ListColumns" /\ pc[w] = "done" /\ RowsRead(w)) =>
        LET cols == columns[req[w].table] IN
        IF \E c \in cols : c.dataType \notin KnownDataTypes
        THEN /\ resp[w].code = "Internal"
             /\ resp[w].msg = "failed to get column from type"
        ELSE /\ resp[w].code = "OK"
             /\ Len(resp[w].rows.Columns) = Cardinality(cols)
             /\ \A i \in DOMAIN resp[w].rows.Columns :
                   resp[w].rows.Columns[i].Type.kind
                      = KindOf(ColumnAt(req[w].table, i).dataType)

\* ListColumns failed on a table with a json column
C16_Witness ==
    /\ req[Server].op = "ListColumns" /\ pc[Server] = "done" /\ RowsRead(Server)
    /\ \E c \in columns[req[Server].table] : c.dataType = "json"
    /\ resp[Server].code = "Internal"

\* C17: GetColumnFromType on a row of data type int, bigint, smallint or
\* mediumint sets unsigned exactly when COLUMN_TYPE contains "unsigned" and
\* autoIncrement exactly when EXTRA contains "auto_increment".
C17_SubstringSearch ==
    \A w \in Workers :
        (req[w].op = "GetColumnFromType" /\ pc[w] = "done"
           /\ req[w].cols[1].DataType \in {"int", "bigint", "smallint", "mediumint"}) =>
        /\ resp[w].code = "OK"
        /\ resp[w].rows.unsigned = Contains(req[w].cols[1].ColumnType, "unsigned")
        /\ resp[w].rows.autoInc = Contains(req[w].cols[1].Extra, "auto_increment")

\* the string of a referential action and the action of a string, as tables
ActionString(a) ==
    CASE a = "CASCADE" -> "CASCADE" [] a = "SET_NULL" -> "SET NULL"
      [] a = "RESTRICT" -> "RESTRICT" [] OTHER -> "NO ACTION"

StringAction(str) ==
    CASE str = "CASCADE" -> "CASCADE" [] str = "SET NULL" -> "SET_NULL"
      [] str = "RESTRICT" -> "RESTRICT" [] OTHER -> "NO_ACTION"

\* C18: the referential action codec never fails: the string of CASCADE,
\* SET_NULL, RESTRICT, NO_ACTION is "CASCADE", "SET NULL", "RESTRICT",
\* "NO ACTION" and that of any other value "NO ACTION"; the action of any
\* string but the four is NO_ACTION, for OnUpdate and OnDelete each by itself.
C18_CodecTotal ==
    \A w \in Workers : pc[w] = "done" =>
        /\ req[w].op = "GetReferentialActionsFromEnum" =>
              /\ resp[w].code = "OK"
              /\ resp[w].msg = ActionString(req[w].column)
        /\ req[w].op = "MapReferentialActionsStringToEnum" =>
              /\ resp[w].code = "OK"
              /\ resp[w].rows.OnUpdate = StringAction(req[w].fks[1].OnUpdate)
              /\ resp[w].rows.OnDelete = StringAction(req[w].fks[1].OnDelete)

\* the actions of "garbage" and "CASCADE" are NO_ACTION and CASCADE
C18_Witness ==
    /\ req[Server].op = "MapReferentialActionsStringToEnum" /\ pc[Server] = "done"
    /\ req[Server].fks[1] = [OnUpdate |-> "garbage", OnDelete |-> "CASCADE"]
    /\ resp[Server].rows = [OnUpdate |-> "NO_ACTION", OnDelete |-> "CASCADE"]

NamedActions == {"CASCADE", "SET_NULL", "RESTRICT", "NO_ACTION"}

\* C19: mapping the OnUpdate and OnDelete actions of a foreign key to their
\* strings and the strings back gives, for any two of CASCADE, SET_NULL,
\* RESTRICT and NO_ACTION, the two actions it started from.
C19_CodecInverse ==
    \A w \in Workers :
        (req[w].op = "MapReferentialActionsEnumToString" /\ pc[w] = "done"
           /\ req[w].fks[1].OnUpdate \in NamedActions
           /\ req[w].fks[1].OnDelete \in NamedActions) =>
        /\ resp[w].code = "OK"
        /\ resp[w].rows.OnUpdate = req[w].fks[1].OnUpdate
        /\ resp[w].rows.OnDelete = req[w].fks[1].OnDelete

\* SET_NULL and RESTRICT went to "SET NULL" and "RESTRICT" and back
C19_Witness ==
    /\ req[Server].op = "MapReferentialActionsEnumToString" /\ pc[Server] = "done"
    /\ req[Server].fks[1] = [OnUpdate |-> "SET_NULL", OnDelete |-> "RESTRICT"]
    /\ loc[Server].rawKey = [OnUpdate |-> "SET NULL", OnDelete |-> "RESTRICT"]
    /\ resp[Server].rows = [OnUpdate |-> "SET_NULL", OnDelete |-> "RESTRICT"]

\* the columns of table t that have a foreign key, as ordinal positions
ForeignPositions(t) == {c.pos : c \in {x \in columns[t] : ConstraintsOn(t, x.name) # {}}}

\* C20: ListColumns on an existing table returns one column per column of
\* the table, in the order of the rows, with its name, unique flag, primary
\* key flag, notNullable (IS_NULLABLE is "NO") and default value (when
\* COLUMN_DEFAULT is not NULL), and one foreign key per column that has one,
\* in the order of the rows, with the column name, the reference table and
\* column and the decoded actions; on a table that does not exist it returns
\* NotFound and runs no query.
C20_ListColumnsRows ==
    \A w \in Workers : (req[w].op = "ListColumns" /\ pc[w] = "done") =>
        LET t == req[w].table IN
        /\ resp[w].code = "OK" =>
              LET cs == resp[w].rows.Columns
                  ks == resp[w].rows.ForeignKeys
              IN
              /\ HasTable(t)
              /\ Len(cs) = Cardinality(columns[t])
              /\ \A i \in DOMAIN cs :
                    LET c == ColumnAt(t, i) IN
                    /\ cs[i].Name = c.name
                    /\ cs[i].IsUnique = c.unique
                    /\ cs[i].IsPrimaryKey = c.primary
                    /\ cs[i].NotNullable = (c.nullable = "NO")
                    /\ cs[i].DefaultValue = (IF c.default.Valid THEN c.default.Value ELSE "")
              /\ Len(ks) = Cardinality(ForeignPositions(t))
              /\ \A j \in DOMAIN ks :
                    \E c \in columns[t] : \E k \in ConstraintsOn(t, c.name) :
                        /\ Cardinality({p \in ForeignPositions(t) : p <= c.pos}) = j
                        /\ ks[j].ColumnName = c.name
                        /\ ks[j].ReferenceTableName = ReferencedTableName(k)
                        /\ ks[j].ReferenceColumnName = k.refCol
                        /\ ks[j].OnUpdate = StringAction(k.onUpdate)
                        /\ ks[j].OnDelete = StringAction(k.onDelete)
        /\ (~HasTable(t) /\ trace[w][1][4] # "err") =>
              /\ resp[w].code = "NotFound" /\ resp[w].msg = "table not found"
              /\ \A i \in DOMAIN trace[w] : trace[w][i][1] # "Query"

\* ListColumns returned the five columns and the two foreign keys of a table
C20_Witness ==
    /\ req[Server].op = "ListColumns" /\ pc[Server] = "done"
    /\ resp[Server].code = "OK"
    /\ Len(resp[Server].rows.Columns) = 5
    /\ Len(resp[Server].rows.ForeignKeys) = 2

\* the eight operations of the service
Operations ==
    {"CreateTable", "DropTable", "AddColumn", "DropColumn", "ListTables",
     "ListColumns", "AddForeignKey", "DropForeignKey"}

\* the last call a handler made
LastCall(w) == trace[w][Len(trace[w])]

IsExistenceCheck(call) == call[1] \in {"CheckTableExists", "CheckColumnExists"}

\* C21: an error of any of the eight operations has the code NotFound,
\* AlreadyExists, InvalidArgument or Internal; NotFound and AlreadyExists
\* follow an existence check that answered (no and yes), InvalidArgument
\* follows a failed type resolution, and nothing else gives these codes.
C21_StatusTaxonomy ==
    \A w \in Workers :
        (pc[w] = "done" /\ req[w].op \in Operations /\ resp[w].code # "OK") =>
        /\ resp[w].code \in {"NotFound", "AlreadyExists", "InvalidArgument", "Internal"}
        /\ resp[w].code = "NotFound" =>
              IsExistenceCheck(LastCall(w)) /\ LastCall(w)[4] = "false"
        /\ resp[w].code = "AlreadyExists" =>
              IsExistenceCheck(LastCall(w)) /\ LastCall(w)[4] = "true"
        /\ resp[w].code = "InvalidArgument" =>
              LastCall(w)[1] = "ResolveType" /\ LastCall(w)[4] = "err"

\* AddForeignKey answered NotFound after its fourth existence check
C21_Witness ==
    /\ pc[Server] = "done" /\ req[Server].op = "AddForeignKey"
    /\ resp[Server].code = "NotFound" /\ resp[Server].msg = "reference column not found"
    /\ Len(trace[Server]) = 4

\* the calls whose failure is not the caller's: the steps of a template,
\* the precondition queries and the statements
FailureCalls ==
    {"ReadTemplateFile", "Parse", "Execute", "CheckTableExists", "CheckColumnExists",
     "GetColumnTypeFromName", "GetForeignKeyConstraint", "Exec", "Query", "Begin",
     "Commit"}

\* a template step, a precondition query or a statement of the handler failed
CallFailed(w) ==
    \E i \in DOMAIN trace[w] : trace[w][i][1] \in FailureCalls /\ trace[w][i][4] = "err"

\* C22: when a template step (read, parse, execute), a precondition query or
\* a statement fails, the operation answers Internal, never NotFound,
\* AlreadyExists or InvalidArgument, whatever the request.
C22_FailuresAreInternal ==
    \A w \in Workers :
        (pc[w] = "done" /\ req[w].op \in Operations /\ CallFailed(w)) =>
            resp[w].code = "Internal"

\* the statement of AddForeignKey failed and the answer is Internal
C22_Witness ==
    /\ pc[Server] = "done" /\ req[Server].op = "AddForeignKey"
    /\ LastCall(Server)[1] = "Exec" /\ LastCall(Server)[4] = "err"
    /\ resp[Server].code = "Internal" /\ resp[Server].msg = "failed to add foreign key"

\* the calls that go to the database: precondition queries, list queries,
\* statements and the transaction calls
IsDatabaseCall(c) ==
    c[1] \in {"CheckTableExists", "CheckColumnExists", "GetColumnTypeFromName",
              "GetForeignKeyConstraint", "Exec", "Query", "Begin", "Commit"}

\* the database calls a request asks for when nothing fails
DatabaseCalls(r) ==
    CASE r.op = "CreateTable" -> 1 + 2 * Len(r.fks) + 1
      [] r.op = "DropTable" -> 2
      [] r.op = "AddColumn" -> 3
      [] r.op = "DropColumn" -> 3
      [] r.op = "ListTables" -> 1
      [] r.op = "ListColumns" -> 2
      [] r.op = "AddForeignKey" -> 6
      [] r.op = "DropForeignKey" -> 7

\* C23: no operation retries: a request makes each of its precondition
\* queries and statements at most once, and the first call that fails is its
\* last one but for the rollback of DropForeignKey, the request ending with
\* an error.
C23_NoRetry ==
    \A w \in Workers : req[w].op \in Operations =>
        LET t == Calls(w) IN
        /\ \A i \in DOMAIN t : t[i][4] = "err" =>
              /\ i = Len(t)
              /\ pc[w] = "done"
              /\ resp[w].code \in {"NotFound", "AlreadyExists", "InvalidArgument", "Internal"}
        /\ \A i \in DOMAIN t : (i < Len(t) /\ IsDatabaseCall(t[i])) =>
              <<t[i][1], t[i][2], t[i][3]>> # <<t[i + 1][1], t[i + 1][2], t[i + 1][3]>>
        /\ Len(SelectSeq(t, IsDatabaseCall)) <= DatabaseCalls(req[w])
        /\ \A i \in DOMAIN trace[w] : trace[w][i][1] = "Rollback" =>
              req[w].op = "DropForeignKey" /\ i = Len(trace[w])

\* the statement of DropTable failed: it was the second and last call
C23_Witness ==
    /\ pc[Server] = "done" /\ req[Server].op = "DropTable"
    /\ Len(trace[Server]) = 2
    /\ LastCall(Server)[1] = "Exec" /\ LastCall(Server)[4] = "err"
    /\ resp[Server].code = "Internal"

\* the operations that change the schema with one statement
OneStatementOperations ==
    {"CreateTable", "DropTable", "AddColumn", "DropColumn", "AddForeignKey"}

IsTransactionCall(c) == c[1] \in {"Begin", "Commit", "Rollback"}

\* C24: only DropForeignKey opens a transaction; CreateTable, DropTable,
\* AddColumn, DropColumn and AddForeignKey run no statement in a transaction
\* and exactly one statement when they succeed, and the statement of a
\* successful AddForeignKey adds the column together with its constraint.
C24_OneStatementNoTransaction ==
    [][\A w \in Workers :
          /\ req'[w].op \in Operations \ {"DropForeignKey"} =>
                /\ loc'[w].tx = "none"
                /\ SelectSeq(trace'[w], IsTransactionCall) = <<>>
          /\ (req'[w].op \in OneStatementOperations /\ pc'[w] = "done"
                /\ resp'[w].code = "OK") =>
                Len(SelectSeq(trace'[w], IsStatement)) = 1
          /\ (req[w].op = "AddForeignKey" /\ pc[w] = "fk_exec" /\ pc'[w] = "done"
                /\ resp'[w].code = "OK") =>
                LET t == req[w].table
                    c == req[w].fks[1].ColumnName
                IN /\ ~HasColumn(t, c) /\ ConstraintsOn(t, c) = {}
                   /\ HasColumn(t, c)' /\ ConstraintsOn(t, c)' # {}
                   /\ Len(SelectSeq(trace[w], IsStatement)) = 0]_vars

\* AddForeignKey succeeded with one statement: the column and its
\* constraint are there
C24_Witness ==
    /\ pc[Server] = "done" /\ req[Server].op = "AddForeignKey"
    /\ resp[Server].code = "OK"
    /\ Len(SelectSeq(trace[Server], IsStatement)) = 1
    /\ HasColumn(req[Server].table, req[Server].fks[1].ColumnName)
    /\ ConstraintsOn(req[Server].table, req[Server].fks[1].ColumnName) # {}

\* the items a CreateTable request is to give its statement: the id column,
\* the caller's columns, the audit columns, the owning foreign key, the
\* caller's foreign keys
ExpectedItems(r) ==
    <<"id BIGINT UNSIGNED AUTO_INCREMENT PRIMARY KEY">>
      \o [i \in DOMAIN r.cols |-> r.cols[i].name \o " " \o Encoding(r.cols[i].type)]
      \o <<"creator_id BIGINT UNSIGNED NOT NULL",
           "created_at TIMESTAMP DEFAULT CURRENT_TIMESTAMP",
           "updated_at TIMESTAMP DEFAULT CURRENT_TIMESTAMP ON UPDATE CURRENT_TIMESTAMP",
           "FOREIGN KEY (creator_id) REFERENCES baas-system.users(id)"
              \o " ON DELETE CASCADE ON UPDATE CASCADE">>
      \o [i \in DOMAIN r.fks |->
             "FOREIGN KEY (" \o r.fks[i].ColumnName \o ") REFERENCES "
                \o r.fks[i].ReferenceTableName \o "(" \o r.fks[i].ReferenceColumnName \o ")"
                \o " ON DELETE " \o ActionString(r.fks[i].OnDelete)
                \o " ON UPDATE " \o ActionString(r.fks[i].OnUpdate)]

\* CreateTable has rendered its statement
Rendered(w) ==
    /\ req[w].op = "CreateTable" /\ pc[w] \in {"ct_exec", "done"}
    /\ loc[w].stmt # NoStmt

\* C25: the statement CreateTable renders is a create-if-not-exists of the
\* table whose list holds the caller's columns in caller order, each a name
\* and its encoded type, then the audit columns, then the owning foreign key
\* to the system users table, then the caller's foreign keys in caller
\* order, for every request, one without columns too; the message of a
\* successful response is the text of that statement.
C25_CreateTableStatement ==
    \A w \in Workers : Rendered(w) =>
        /\ loc[w].stmt.kind = "CREATE TABLE IF NOT EXISTS"
        /\ loc[w].stmt.table = req[w].table
        /\ CreateTableItems(loc[w].stmt) = ExpectedItems(req[w])
        /\ (pc[w] = "done" /\ resp[w].code = "OK") =>
              resp[w].msg = "CREATE TABLE IF NOT EXISTS " \o req[w].table \o " ("
                               \o JoinWith(ExpectedItems(req[w]), ", ") \o ");"

\* C26: ListTables and ListColumns only read: every step of either, and so
\* the whole call whether it succeeds or fails, leaves the tables, their
\* columns and their constraints as they were.
C26_ListReadOnly ==
    [][\A w \in Workers :
          (req[w].op \in {"ListTables", "ListColumns"} /\ pc'[w] # pc[w]) =>
              /\ tables' = tables
              /\ columns' = columns
              /\ constraints' = constraints]_vars

\* ListColumns has listed the columns of a table, which is still there
C26_Witness ==
    /\ pc[Server] = "done" /\ req[Server].op = "ListColumns"
    /\ resp[Server].code = "OK"
    /\ HasTable(req[Server].table)
    /\ Len(resp[Server].rows.Columns) = Cardinality(columns[req[Server].table])

\* worker w passed the table gate of CreateTable: the table was not there
PassedTableGate(w) ==
    /\ req[w].op = "CreateTable" /\ trace[w] # <<>>
    /\ trace[w][1] = Call("CheckTableExists", req[w].table, "", "false")

\* C27: two CreateTable requests for the same missing table may both pass
\* the table gate before either runs its statement.  Neither is then
\* answered AlreadyExists; each that succeeds returns the text of its own
\* statement; the statement that runs first makes the table, and the one
\* that runs second leaves the table as the first made it.
C27_ConcurrentCreateTable ==
    [][\A w \in Workers :
          (PassedTableGate(w) /\ pc[w] # "done" /\ pc'[w] = "done") =>
              /\ resp'[w].code # "AlreadyExists"
              /\ (pc[w] = "ct_exec" /\ resp'[w].code = "OK") =>
                    /\ resp'[w].msg = CreateTableText(loc[w].stmt)
                    /\ HasTable(req[w].table)'
                    /\ IF HasTable(req[w].table)
                       THEN /\ tables' = tables
                            /\ columns' = columns
                            /\ constraints' = constraints
                       ELSE /\ columns'[req[w].table] = CreatedColumns(loc[w].stmt)
                            /\ constraints'[req[w].table] = CreatedConstraints(loc[w].stmt)]_vars

\* both requests passed the gate and succeeded with different statements;
\* the table is the one of the first and not the one of the second
C27_Witness ==
    /\ \A w \in Workers :
          /\ PassedTableGate(w) /\ pc[w] = "done" /\ resp[w].code = "OK"
          /\ req[w].table = "posts"
          /\ resp[w].msg = CreateTableText(loc[w].stmt)
    /\ loc["w1"].stmt # loc["w2"].stmt
    /\ columns["posts"] = CreatedColumns(loc["w1"].stmt)
    /\ columns["posts"] # CreatedColumns(loc["w2"].stmt)

\* the constraint lookup of DropForeignKey found no constraint
NoConstraintFound(w) ==
    /\ req[w].op = "DropForeignKey" /\ Len(trace[w]) >= 3
    /\ trace[w][3] = Call("GetForeignKeyConstraint", req[w].table, req[w].column, "")

IsDropColumn(c) == c[1] = "Exec" /\ c[2] = "DROP COLUMN"

\* C28: DropForeignKey on a column that is there and has no foreign key
\* passes every gate, the lookup giving the empty name; it opens the
\* transaction and runs the drop of the constraint with the empty name; the
\* engine rejects that statement, the answer is Internal and not NotFound,
\* and the column is not dropped.
C28_NoConstraintIsInternal ==
    \A w \in Workers : NoConstraintFound(w) =>
        /\ loc[w].stmt \in {NoStmt, DropConstraintStmt(req[w].table, "")}
        /\ pc[w] \notin {"df_exec2", "df_commit"}
        /\ SelectSeq(trace[w], IsDropColumn) = <<>>
        /\ HasColumn(req[w].table, req[w].column)
        /\ pc[w] = "done" => resp[w].code = "Internal"
        /\ (pc[w] = "done" /\ \E i \in DOMAIN trace[w] : trace[w][i][1] = "Exec") =>
              /\ resp[w].msg = "failed to drop foreign key constraint"
              /\ \E i \in DOMAIN trace[w] : trace[w][i] = Call("Begin", "", "", "ok")

\* the drop of the constraint with the empty name failed inside the
\* transaction: Internal, and the column is still there
C28_Witness ==
    /\ NoConstraintFound(Server) /\ pc[Server] = "done"
    /\ loc[Server].stmt = DropConstraintStmt(req[Server].table, "")
    /\ \E i \in DOMAIN trace[Server] :
          trace[Server][i] = Call("Exec", "DROP FOREIGN KEY", req[Server].table, "err")
    /\ resp[Server].code = "Internal"
    /\ HasColumn(req[Server].table, req[Server].column)

ScanFailed(w) ==
    \E i \in DOMAIN trace[w] : trace[w][i][1] = "Scan" /\ trace[w][i][4] = "err"

ReferenceTableAnswered(w) == Len(trace[w]) >= 3 /\ trace[w][3][4] # "err"

\* and the query of the reference column gate did not fail either
ReferenceColumnAnswered(w) == Len(trace[w]) >= 4 /\ trace[w][4][4] # "err"

\* C30: for AddForeignKey with reference table name users the statement
\* references column id of the system users table and gives the new column
\* BIGINT UNSIGNED, whatever reference column the caller names, while the
\* reference table and reference column gates ask the service database for
\* the names of the caller: the request fails with NotFound when that
\* database has no table users, and when its table users has no column of
\* that name.
C30_UsersBranchGates ==
    \A w \in Workers :
        (req[w].op = "AddForeignKey" /\ req[w].fks[1].ReferenceTableName = "users") =>
        LET fk == req[w].fks[1] IN
        /\ loc[w].stmt # NoStmt =>
              /\ loc[w].stmt.refTable = SystemUsers
              /\ loc[w].stmt.refCol = "id"
              /\ loc[w].stmt.type = "BIGINT UNSIGNED"
        /\ Len(trace[w]) >= 3 =>
              /\ trace[w][3][1] = "CheckTableExists"
              /\ trace[w][3][2] = "users"
        /\ Len(trace[w]) >= 4 =>
              /\ trace[w][4][1] = "CheckColumnExists"
              /\ trace[w][4][2] = "users"
              /\ trace[w][4][3] = fk.ReferenceColumnName
        /\ (pc[w] = "done" /\ ReferenceTableAnswered(w) /\ ~HasTable("users")) =>
              /\ resp[w].code = "NotFound"
              /\ resp[w].msg = "reference table not found"
        /\ (pc[w] = "done" /\ ReferenceColumnAnswered(w) /\ HasTable("users")
              /\ ~HasColumn("users", fk.ReferenceColumnName)) =>
              /\ resp[w].code = "NotFound"
              /\ resp[w].msg = "reference column not found"

\* the service database has no table users: NotFound, although the
\* statement would have referenced the system users table
C30_Witness ==
    /\ pc[Server] = "done" /\ req[Server].op = "AddForeignKey"
    /\ req[Server].fks[1].ReferenceTableName = "users"
    /\ ReferenceTableAnswered(Server) /\ ~HasTable("users")
    /\ resp[Server].code = "NotFound"
    /\ resp[Server].msg = "reference table not found"

=============================================================================
